---- MODULE Spec2Model ----
(***************************************************************************)
(* The playwright-cli daemon (src/src/types.ts, lines 336-971; the same    *)
(* registry code is in src/lib/server.js): the session registry, the page  *)
(* locator and the socket 'data' handler with its command branches.        *)
(*                                                                         *)
(* Node runs every handler to its next `await` without interruption, so an *)
(* action is either the synchronous part of a 'data' event (up to the      *)
(* first await or to socket.end) or the resumption of one suspended        *)
(* handler: the awaited engine call takes effect and returns (or throws),  *)
(* and the handler runs on to its next await or to its end.                 *)
(*                                                                         *)
(* shutdown() is started by the stop branch and by the SIGINT and SIGTERM   *)
(* listeners.  The sockets have no 'error' listener: a socket that emits    *)
(* 'error' ends the process with an uncaught exception.                     *)
(***************************************************************************)
EXTENDS Integers, Sequences, FiniteSets, TLC

\* ---------------------------------------------------------------- bounds
NConn == 2          \* connections open at the same time
MaxHandlers == 2    \* 'data' events that carry a message, per connection
MaxChunk == 1       \* newline-terminated messages in one chunk
MaxBurst == 2       \* the same, in the specification of the framing
MaxBuf == 1         \* complete messages left in a connection's buffer
MaxInFlight == 1    \* handlers started and not ended at the same time
MaxRacing == 2      \* the same, in the specifications of the races
MaxCtx == 2         \* contexts the engine can create before it is exhausted
MaxPage == 2        \* pages the engine can create before it is exhausted
MaxSignals == 1     \* SIGINT / SIGTERM deliveries whose shutdown() is in progress
MaxLines == 3       \* lines of the text ariaSnapshot() returns
MaxIndent == 4      \* leading spaces of a line of that text
MaxDepth == 3       \* request.maxDepth of a snapshot request

Conns == 1..NConn
Slots == 1..MaxHandlers
Ctxs == 1..MaxCtx
PageHandles == 1..MaxPage
Signals == 1..MaxSignals

\* ------------------------------------------------------------ identifiers
DEFAULT_BROWSER_ID == "default"

\* The values crypto.randomUUID().slice(0, 8) can take: 32 random bits, drawn
\* independently on every call, so that a value can come back.
IdPool == {"id1", "id2"}

\* An identifier the generator never returns.
NeverIssued == "zz"

\* request.browserId / request.pageId as a client can send them; "" is an
\* absent (falsy) field.
BrowserRequestIds == IdPool \cup {DEFAULT_BROWSER_ID, ""}
PageRequestIds == IdPool \cup {NeverIssued, ""}

\* ------------------------------------------------- Map (insertion-ordered)
\* A JavaScript Map is a sequence of entries [k, v] in insertion order.
MapKeys(m) == {m[i].k : i \in 1..Len(m)}
MapHas(m, key) == key \in MapKeys(m)
MapIndex(m, key) == CHOOSE i \in 1..Len(m) : m[i].k = key
MapGet(m, key) == m[MapIndex(m, key)].v
MapSet(m, key, val) ==
    IF MapHas(m, key)
    THEN [i \in 1..Len(m) |-> IF m[i].k = key THEN [k |-> key, v |-> val] ELSE m[i]]
    ELSE Append(m, [k |-> key, v |-> val])
MapDelete(m, key) == SelectSeq(m, LAMBDA e : e.k # key)

VARIABLES
    proc,        \* the daemon process: "start", "launching", "listening",
                 \* "exited" (process.exit or nothing left to run), "crashed"
                 \* (uncaught exception)
    socketFile,  \* whether the file at SOCKET_PATH exists
    browser,     \* the engine instance: "null", "open", "closed"
    browsers,    \* the registry: Map browserId -> BrowserData (named by its context)
    pages,       \* pages[d]: the Map pageId -> page handle of BrowserData d
    ctxOpen,     \* engine: ctxOpen[d] iff context d is created and not closed
    nctx,        \* engine: contexts created so far
    pageOpen,    \* engine: pageOpen[p] iff page p is created and not closed
    pageCtx,     \* engine: the context that created page p (0: not created)
    socket,      \* per connection: buffer, writable side, envelopes written
    sent,        \* the socket.end(envelope) call of the last step, if it made one
    h,           \* per connection and slot: a suspended 'data' handler
    sig,         \* per signal delivery: the shutdown() its listener started
    snap         \* the snapshot branch's formatter: the text ariaSnapshot()
                 \* returned, request.maxDepth, request.compact and `result`

vars == <<proc, socketFile, browser, browsers, pages, ctxOpen, nctx,
          pageOpen, pageCtx, socket, sent, h, sig, snap>>

registry == <<browsers, pages>>
engine == <<browser, ctxOpen, nctx, pageOpen, pageCtx>>
process == <<proc, socketFile, sig>>

npage == Cardinality({p \in PageHandles : pageCtx[p] # 0})

\* --------------------------------------------------------------- envelopes
Envelope(ok, msg, pid, bid, lst) ==
    [success |-> ok, msg |-> msg, pageId |-> pid, browserId |-> bid, list |-> lst]
Success(msg) == Envelope(TRUE, msg, "", "", <<>>)
Failure(msg) == Envelope(FALSE, msg, "", "", <<>>)
\* getErrorMessage(err) of a failed engine call
getErrorMessage == "engine error"

\* A connection as accepted: empty buffer, nothing written.
FreshSocket == [data |-> 0, ended |-> FALSE, written |-> 0, dispatched |-> 0]

\* The last step made no call of socket.end.
Nothing == [conn |-> 0, env |-> Failure(""), written |-> FALSE]

\* socket.end(text): writes text and ends the writable side; on a socket
\* whose writable side has ended nothing is written.
SocketEnd(s, env) ==
    IF s.ended THEN s
    ELSE [s EXCEPT !.ended = TRUE, !.written = @ + 1]

\* socket.end(env) on connection c: env reaches the client unless the
\* writable side had ended.
Sent(c, env) == [conn |-> c, env |-> env, written |-> ~socket[c].ended]

\* ---------------------------------------------------------------- handlers
Idle == [pc |-> "idle", browserId |-> "", pageId |-> "", bd |-> 0, page |-> 0, it |-> 0]
Await(pc, bid, pid, bd, page, it) ==
    [pc |-> pc, browserId |-> bid, pageId |-> pid, bd |-> bd, page |-> page, it |-> it]

FreeSlot(c) == CHOOSE k \in Slots :
    /\ h[c][k].pc = "idle"
    /\ \A j \in Slots : h[c][j].pc = "idle" => k <= j

\* The BrowserData objects the program can still reach: those in the registry
\* and those a suspended handler holds in browserData / found.browserData.
\* The page Map of any other is garbage.
Reachable(br, hh) ==
    {br[i].v : i \in 1..Len(br)}
        \cup {hh[c][k].bd : c \in Conns, k \in Slots}
Collected(pg, br, hh) ==
    [d \in Ctxs |-> IF d \in Reachable(br, hh) THEN pg[d] ELSE <<>>]

\* ------------------------------------------------------ registry functions
generateId == IdPool

\* findPage(pageId): the first session, in registry order, whose page map
\* has pageId; 0 when there is none.
findPage(pageId) ==
    LET hits == {i \in 1..Len(browsers) : MapHas(pages[browsers[i].v], pageId)}
    IN IF hits = {} THEN 0
       ELSE browsers[CHOOSE i \in hits : \A j \in hits : i <= j].v

\* listBrowsers / listPages: the projections the handlers answer with.
listBrowsers ==
    [i \in 1..Len(browsers) |->
        [browserId |-> browsers[i].k,
         pageCount |-> Len(pages[browsers[i].v]),
         isDefault |-> browsers[i].k = DEFAULT_BROWSER_ID]]

RECURSIVE Flatten(_)
Flatten(ss) == IF ss = <<>> THEN <<>> ELSE Head(ss) \o Flatten(Tail(ss))

listPages ==
    Flatten([i \in 1..Len(browsers) |->
        [j \in 1..Len(pages[browsers[i].v]) |->
            [pageId |-> pages[browsers[i].v][j].k, browserId |-> browsers[i].k]]])

\* The page handles registered in some session.
RegisteredPages ==
    UNION {{pages[browsers[i].v][j].v : j \in 1..Len(pages[browsers[i].v])} :
            i \in 1..Len(browsers)}

\* The pageList of a listing that leaves out the pages whose page.url() throws.
PageInfos_WithoutFailing(bad) ==
    Flatten([i \in 1..Len(browsers) |->
        [j \in 1..Len(SelectSeq(pages[browsers[i].v], LAMBDA e : e.v \notin bad)) |->
            [pageId |-> SelectSeq(pages[browsers[i].v], LAMBDA e : e.v \notin bad)[j].k,
             browserId |-> browsers[i].k,
             url |-> "url"]]])

\* The pageList of the listPages branch: an entry per page of every session,
\* with url 'unknown' for the pages, bad, whose page.url() throws.
PageInfos(bad) ==
    Flatten([i \in 1..Len(browsers) |->
        [j \in 1..Len(pages[browsers[i].v]) |->
            [pageId |-> pages[browsers[i].v][j].k,
             browserId |-> browsers[i].k,
             url |-> IF pages[browsers[i].v][j].v \in bad THEN "unknown" ELSE "url"]]])

\* ------------------------------------------------------------------- text
\* A string is the sequence of its characters.
\* The characters \s matches and trim() removes.
Whitespace == {" ", "\t", "\n", "\r"}

Spaces(n) == [i \in 1..n |-> " "]

\* !line.trim(): the line is empty or whitespace only.
IsBlank(line) == \A i \in 1..Len(line) : line[i] \in Whitespace

\* text.split('\n')
RECURSIVE Split(_)
Split(text) ==
    IF \A i \in 1..Len(text) : text[i] # "\n"
    THEN <<text>>
    ELSE LET i == CHOOSE i \in 1..Len(text) :
                    text[i] = "\n" /\ \A j \in 1..(i - 1) : text[j] # "\n"
         IN <<SubSeq(text, 1, i - 1)>> \o Split(SubSeq(text, i + 1, Len(text)))

\* lines.join('\n')
RECURSIVE Join(_)
Join(lines) ==
    IF lines = <<>> THEN <<>>
    ELSE IF Len(lines) = 1 THEN lines[1]
    ELSE lines[1] \o <<"\n">> \o Join(Tail(lines))

\* `${n}` of a non-negative integer
Digits == <<"0", "1", "2", "3", "4", "5", "6", "7", "8", "9">>
RECURSIVE Decimal(_)
Decimal(n) ==
    IF n < 10 THEN <<Digits[n + 1]>>
    ELSE Decimal(n \div 10) \o <<Digits[(n % 10) + 1]>>

\* text.trim()
RECURSIVE TrimStart(_)
TrimStart(text) ==
    IF text # <<>> /\ Head(text) \in Whitespace THEN TrimStart(Tail(text)) ELSE text
RECURSIVE TrimEnd(_)
TrimEnd(text) ==
    IF text # <<>> /\ text[Len(text)] \in Whitespace
    THEN TrimEnd(SubSeq(text, 1, Len(text) - 1))
    ELSE text
Trim(text) == TrimEnd(TrimStart(text))

\* The texts ariaSnapshot() returns: up to MaxLines lines, a line being up to
\* MaxIndent spaces followed by a node or by nothing.
SnapshotLines == {Spaces(n) \o body : n \in 0..MaxIndent, body \in {<<>>, <<"x">>}}
Snapshots ==
    {Join(lines) : lines \in UNION {[1..n -> SnapshotLines] : n \in 1..MaxLines}}

\* request.maxDepth: absent (or null), or a number.
MaxDepths == {<<>>} \cup {<<d>> : d \in 0..MaxDepth}

\* No snapshot is being formatted.
NoSnapshot ==
    [pc |-> "idle", snapshot |-> <<>>, maxDepth |-> <<>>, compact |-> FALSE, result |-> <<>>]

\* ----------------------------------------------------------------- startup
Init ==
    /\ proc = "start"
    /\ socketFile \in BOOLEAN
    /\ browser = "null"
    /\ browsers = <<>>
    /\ pages = [d \in Ctxs |-> <<>>]
    /\ ctxOpen = [d \in Ctxs |-> FALSE]
    /\ nctx = 0
    /\ pageOpen = [p \in PageHandles |-> FALSE]
    /\ pageCtx = [p \in PageHandles |-> 0]
    /\ socket = [c \in Conns |-> FreshSocket]
    /\ sent = Nothing
    /\ h = [c \in Conns |-> [k \in Slots |-> Idle]]
    /\ sig = [s \in Signals |-> Idle]
    /\ snap = NoSnapshot

\* startServer without the removal of a stale socket file.
startServer_KeepsStaleFile ==
    /\ proc = "start"
    /\ socketFile' = socketFile
    /\ proc' = "launching"
    /\ UNCHANGED <<browser, registry, ctxOpen, nctx, pageOpen, pageCtx, socket, sent, h, sig>>
    /\ UNCHANGED snap

\* startServer up to `await chromium.launch`: the stale socket file is removed.
startServer ==
    /\ proc = "start"
    /\ socketFile' = FALSE
    /\ proc' = "launching"
    /\ UNCHANGED <<browser, registry, ctxOpen, nctx, pageOpen, pageCtx, socket, sent, h, sig>>
    /\ UNCHANGED snap

\* chromium.launch returns: the server is created and listens on SOCKET_PATH;
\* when the launch fails startServer rejects and nothing listens.
Launched ==
    /\ proc = "launching"
    /\ \E ok \in BOOLEAN :
        IF ok
        THEN browser' = "open" /\ socketFile' = TRUE /\ proc' = "listening"
        ELSE browser' = "null" /\ socketFile' = socketFile /\ proc' = "exited"
    /\ UNCHANGED <<registry, ctxOpen, nctx, pageOpen, pageCtx, socket, sent, h, sig>>
    /\ UNCHANGED snap


\* ------------------------------------------------------ the 'data' handler
\* The event loop takes its next event once the last handler's write is out.
Running == proc = "listening" /\ sent = Nothing

\* Handlers and signal listeners suspended on an engine call.
InFlight ==
    Cardinality({ck \in Conns \X Slots : h[ck[1]][ck[2]].pc # "idle"})
        + Cardinality({s \in Signals : sig[s].pc # "idle"})

\* Connection b is open and has had a message dispatched.  An accepted
\* connection takes the lowest slot that is not occupied.
Occupied(b) == socket[b] # FreshSocket \/ \E k \in Slots : h[b][k].pc # "idle"

\* A server that takes the next message only when no handler is suspended.
HasMessage_OneAtATime(c, n, cap) ==
    /\ Running
    /\ InFlight = 0
    /\ \A b \in 1..(c - 1) : Occupied(b)
    /\ socket[c].data + n >= 1
    /\ socket[c].data + n - 1 <= MaxBuf
    /\ socket[c].dispatched < MaxHandlers

\* A chunk with n newline-terminated messages arrives on connection c and the
\* buffer then holds a newline: the first message is sliced off and parsed.
\* Fewer than cap handlers are suspended when it arrives.
HasMessage(c, n, cap) ==
    /\ Running
    /\ InFlight < cap
    /\ \A b \in 1..(c - 1) : Occupied(b)
    /\ socket[c].data + n >= 1
    /\ socket[c].data + n - 1 <= MaxBuf
    /\ socket[c].dispatched < MaxHandlers

Sliced(c, n) == [socket[c] EXCEPT !.data = @ + n - 1, !.dispatched = @ + 1]

\* Whether every handler of connection c other than slot k has ended.
OthersIdle(c, k) == \A j \in Slots \ {k} : h[c][j].pc = "idle"

\* The client leaves once the server has ended the connection: when no
\* handler of the connection is left either, the connection is over and c
\* stands for the next one accepted (`let data = ''`).
Closed(s, idle) == IF s.ended /\ idle THEN FreshSocket ELSE s

\* The handler answers before any await.
Answer(c, n, env) ==
    /\ socket' = [socket EXCEPT ![c] = Closed(SocketEnd(Sliced(c, n), env), OthersIdle(c, 0))]
    /\ sent' = Sent(c, env)
    /\ UNCHANGED h

\* The handler reaches an await.
Suspend(c, n, rec) ==
    /\ socket' = [socket EXCEPT ![c] = Sliced(c, n)]
    /\ sent' = Nothing
    /\ h' = [h EXCEPT ![c][FreeSlot(c)] = rec]

\* Finish with a catch block that leaves out socket.end.
Finish_FailureUnanswered(c, k, env) ==
    /\ socket' = IF env.success
                 THEN [socket EXCEPT ![c] = Closed(SocketEnd(@, env), OthersIdle(c, k))]
                 ELSE socket
    /\ sent' = IF env.success THEN Sent(c, env) ELSE Nothing
    /\ h' = [h EXCEPT ![c][k] = Idle]

\* A suspended handler ends with socket.end(env).
Finish(c, k, env) ==
    /\ socket' = [socket EXCEPT ![c] = Closed(SocketEnd(@, env), OthersIdle(c, k))]
    /\ sent' = Sent(c, env)
    /\ h' = [h EXCEPT ![c][k] = Idle]

\* if (newlineIndex === -1) return;
DataNoNewline(c) ==
    /\ Running
    /\ socket[c].data = 0
    /\ UNCHANGED vars

\* ------------------------------------------------------------- newBrowser
newBrowser(c, n, cap) ==
    /\ HasMessage(c, n, cap)
    /\ \E id \in generateId : Suspend(c, n, Await("nb_ctx", id, "", 0, 0, 0))
    /\ UNCHANGED <<process, registry, engine>>
    /\ UNCHANGED snap

\* browser.newContext() returns: browsers.set(browserId, {context, pages}).
newBrowserResume(c, k) ==
    /\ Running
    /\ h[c][k].pc = "nb_ctx"
    /\ \E ok \in BOOLEAN :
        /\ ok => browser = "open" /\ nctx < MaxCtx
        /\ IF ok
           THEN LET d == nctx + 1 IN
                /\ nctx' = d
                /\ ctxOpen' = [ctxOpen EXCEPT ![d] = TRUE]
                /\ browsers' = MapSet(browsers, h[c][k].browserId, d)
                /\ Finish(c, k, Envelope(TRUE, "", "", h[c][k].browserId, <<>>))
                /\ pages' = Collected([pages EXCEPT ![d] = <<>>], browsers', h')
           ELSE /\ Finish(c, k, Failure(getErrorMessage))
                /\ UNCHANGED <<browsers, ctxOpen, nctx>>
                /\ pages' = Collected(pages, browsers', h')
    /\ UNCHANGED <<process, browser, pageOpen, pageCtx>>
    /\ UNCHANGED snap

\* ----------------------------------------------------------- closeBrowser
\* A Map iterator that has consumed `it` entries, after the entry at idx is
\* deleted from its Map.
IterAfterDelete(it, idx) == IF idx <= it THEN it - 1 ELSE it

closeBrowser(c, n, bid, cap) ==
    /\ HasMessage(c, n, cap)
    /\ IF bid = ""
       THEN Answer(c, n, Failure("browserId is required"))
       ELSE IF ~MapHas(browsers, bid)
       THEN Answer(c, n, Envelope(FALSE, "Browser not found", "", bid, <<>>))
       ELSE LET d == MapGet(browsers, bid) IN
            IF Len(pages[d]) > 0
            THEN Suspend(c, n, Await("cb_page", bid, "", d, pages[d][1].v, 1))
            ELSE Suspend(c, n, Await("cb_ctx", bid, "", d, 0, 0))
    /\ UNCHANGED <<process, registry, engine>>
    /\ UNCHANGED snap

\* `await page.close()` in the loop over browserData.pages.values() returns.
closeBrowserPageClosed(c, k) ==
    /\ Running
    /\ h[c][k].pc = "cb_page"
    /\ LET d == h[c][k].bd
           it == h[c][k].it
       IN \E ok \in BOOLEAN :
        IF ok
        THEN /\ pageOpen' = [pageOpen EXCEPT ![h[c][k].page] = FALSE]
             /\ h' = [h EXCEPT ![c][k] =
                    IF it < Len(pages[d])
                    THEN [@ EXCEPT !.page = pages[d][it + 1].v, !.it = it + 1]
                    ELSE [@ EXCEPT !.pc = "cb_ctx", !.page = 0, !.it = 0]]
             /\ UNCHANGED socket /\ sent' = Nothing
        ELSE /\ Finish(c, k, Failure(getErrorMessage))
             /\ UNCHANGED pageOpen
    /\ UNCHANGED <<process, browsers, browser, ctxOpen, nctx, pageCtx>>
    /\ pages' = Collected(pages, browsers', h')
    /\ UNCHANGED snap

\* The iterators of the shutdown() calls started by signals, after the entry
\* at idx is deleted from the registry.
SigAfterDelete(idx) ==
    [s \in Signals |->
        IF sig[s].pc = "sd_ctx"
        THEN [sig[s] EXCEPT !.it = IterAfterDelete(@, idx)]
        ELSE sig[s]]

\* `await browserData.context.close()` returns: browsers.delete(browserId).
closeBrowserContextClosed(c, k) ==
    /\ Running
    /\ h[c][k].pc = "cb_ctx"
    /\ LET d == h[c][k].bd
           bid == h[c][k].browserId
       IN \E ok \in BOOLEAN :
        IF ok
        THEN /\ ctxOpen' = [ctxOpen EXCEPT ![d] = FALSE]
             /\ pageOpen' = [p \in PageHandles |-> pageOpen[p] /\ pageCtx[p] # d]
             /\ browsers' = MapDelete(browsers, bid)
             /\ socket' = [socket EXCEPT ![c] =
                    Closed(SocketEnd(@, Success("Browser closed")), OthersIdle(c, k))]
             /\ sent' = Sent(c, Success("Browser closed"))
             /\ h' = [cc \in Conns |-> [kk \in Slots |->
                    IF cc = c /\ kk = k THEN Idle
                    ELSE IF h[cc][kk].pc = "sd_ctx" /\ MapHas(browsers, bid)
                    THEN [h[cc][kk] EXCEPT !.it = IterAfterDelete(@, MapIndex(browsers, bid))]
                    ELSE h[cc][kk]]]
             /\ sig' = IF MapHas(browsers, bid)
                       THEN SigAfterDelete(MapIndex(browsers, bid))
                       ELSE sig
        ELSE /\ Finish(c, k, Failure(getErrorMessage))
             /\ UNCHANGED <<ctxOpen, pageOpen, browsers, sig>>
    /\ UNCHANGED <<proc, socketFile, browser, nctx, pageCtx>>
    /\ pages' = Collected(pages, browsers', h')
    /\ UNCHANGED snap


\* ---------------------------------------------------------------- newPage
\* newPage with a silent fallback to the default session for an unknown id.
newPage_FallsBackToDefault(c, n, bid, cap) ==
    /\ HasMessage(c, n, cap)
    /\ LET browserId == IF MapHas(browsers, bid) THEN bid ELSE DEFAULT_BROWSER_ID IN
       IF MapHas(browsers, browserId)
       THEN \E pageId \in generateId :
                Suspend(c, n, Await("np_page", browserId, pageId,
                                    MapGet(browsers, browserId), 0, 0))
       ELSE Suspend(c, n, Await("np_ctx", browserId, "", 0, 0, 0))
    /\ UNCHANGED <<process, registry, engine>>
    /\ UNCHANGED snap

\* getOrCreateDefaultBrowser() when the registry has the default session, or
\* browsers.get(browserId): the handler goes on to generateId() and to
\* `await browserData.context.newPage()`.
newPage(c, n, bid, cap) ==
    /\ HasMessage(c, n, cap)
    /\ LET browserId == IF bid = "" THEN DEFAULT_BROWSER_ID ELSE bid IN
       IF MapHas(browsers, browserId)
       THEN \E pageId \in generateId :
                Suspend(c, n, Await("np_page", browserId, pageId,
                                    MapGet(browsers, browserId), 0, 0))
       ELSE IF browserId = DEFAULT_BROWSER_ID
       THEN Suspend(c, n, Await("np_ctx", browserId, "", 0, 0, 0))
       ELSE Answer(c, n, Envelope(FALSE, "Browser not found. Create one", "", browserId, <<>>))
    /\ UNCHANGED <<process, registry, engine>>
    /\ UNCHANGED snap

\* getOrCreateDefaultBrowser registering the new context under a generated id.
getOrCreateDefaultBrowser_GeneratedId(c, k) ==
    /\ Running
    /\ h[c][k].pc = "np_ctx"
    /\ \E ok \in BOOLEAN :
        /\ ok => browser = "open" /\ nctx < MaxCtx
        /\ IF ok
           THEN LET d == nctx + 1 IN
                /\ nctx' = d
                /\ ctxOpen' = [ctxOpen EXCEPT ![d] = TRUE]
                /\ \E id \in generateId : browsers' = MapSet(browsers, id, d)
                /\ \E pageId \in generateId :
                     h' = [h EXCEPT ![c][k] =
                            Await("np_page", DEFAULT_BROWSER_ID, pageId, d, 0, 0)]
                /\ UNCHANGED socket /\ sent' = Nothing
                /\ pages' = Collected([pages EXCEPT ![d] = <<>>], browsers', h')
           ELSE /\ Finish(c, k, Failure(getErrorMessage))
                /\ UNCHANGED <<browsers, ctxOpen, nctx>>
                /\ pages' = Collected(pages, browsers', h')
    /\ UNCHANGED <<process, browser, pageOpen, pageCtx>>
    /\ UNCHANGED snap

\* getOrCreateDefaultBrowser after `await browser.newContext()`:
\* browsers.set(DEFAULT_BROWSER_ID, ...) and return browsers.get(...).
getOrCreateDefaultBrowser(c, k) ==
    /\ Running
    /\ h[c][k].pc = "np_ctx"
    /\ \E ok \in BOOLEAN :
        /\ ok => browser = "open" /\ nctx < MaxCtx
        /\ IF ok
           THEN LET d == nctx + 1 IN
                /\ nctx' = d
                /\ ctxOpen' = [ctxOpen EXCEPT ![d] = TRUE]
                /\ browsers' = MapSet(browsers, DEFAULT_BROWSER_ID, d)
                /\ \E pageId \in generateId :
                     h' = [h EXCEPT ![c][k] =
                            Await("np_page", DEFAULT_BROWSER_ID, pageId, d, 0, 0)]
                /\ UNCHANGED socket /\ sent' = Nothing
                /\ pages' = Collected([pages EXCEPT ![d] = <<>>], browsers', h')
           ELSE /\ Finish(c, k, Failure(getErrorMessage))
                /\ UNCHANGED <<browsers, ctxOpen, nctx>>
                /\ pages' = Collected(pages, browsers', h')
    /\ UNCHANGED <<process, browser, pageOpen, pageCtx>>
    /\ UNCHANGED snap

\* newPage registering the page as soon as it is created, before it is
\* navigated.
newPageCreated_RegistersFirst(c, k) ==
    /\ Running
    /\ h[c][k].pc = "np_page"
    /\ \E ok \in BOOLEAN :
        /\ ok => ctxOpen[h[c][k].bd] /\ npage < MaxPage
        /\ IF ok
           THEN LET p == npage + 1 IN
                /\ pageCtx' = [pageCtx EXCEPT ![p] = h[c][k].bd]
                /\ pageOpen' = [pageOpen EXCEPT ![p] = TRUE]
                /\ h' = [h EXCEPT ![c][k] = [@ EXCEPT !.pc = "np_goto", !.page = p]]
                /\ UNCHANGED socket /\ sent' = Nothing
                /\ pages' = Collected([pages EXCEPT ![h[c][k].bd] =
                                MapSet(@, h[c][k].pageId, p)], browsers, h')
           ELSE /\ Finish(c, k, Failure(getErrorMessage))
                /\ UNCHANGED <<pageCtx, pageOpen>>
                /\ pages' = Collected(pages, browsers, h')
    /\ UNCHANGED <<process, browsers, browser, ctxOpen, nctx>>
    /\ UNCHANGED snap

\* `await browserData.context.newPage()` returns.
newPageCreated(c, k) ==
    /\ Running
    /\ h[c][k].pc = "np_page"
    /\ \E ok \in BOOLEAN :
        /\ ok => ctxOpen[h[c][k].bd] /\ npage < MaxPage
        /\ IF ok
           THEN LET p == npage + 1 IN
                /\ pageCtx' = [pageCtx EXCEPT ![p] = h[c][k].bd]
                /\ pageOpen' = [pageOpen EXCEPT ![p] = TRUE]
                /\ h' = [h EXCEPT ![c][k] = [@ EXCEPT !.pc = "np_goto", !.page = p]]
                /\ UNCHANGED socket /\ sent' = Nothing
           ELSE /\ Finish(c, k, Failure(getErrorMessage))
                /\ UNCHANGED <<pageCtx, pageOpen>>
    /\ UNCHANGED <<process, browsers, browser, ctxOpen, nctx>>
    /\ pages' = Collected(pages, browsers', h')
    /\ UNCHANGED snap

\* `await page.goto('about:blank')` returns: browserData.pages.set(pageId, page).
newPageNavigated(c, k) ==
    /\ Running
    /\ h[c][k].pc = "np_goto"
    /\ \E ok \in BOOLEAN :
        /\ ok => pageOpen[h[c][k].page]
        /\ IF ok
           THEN /\ Finish(c, k, Envelope(TRUE, "", h[c][k].pageId, h[c][k].browserId, <<>>))
                /\ UNCHANGED browsers
                /\ pages' = Collected([pages EXCEPT ![h[c][k].bd] =
                                MapSet(@, h[c][k].pageId, h[c][k].page)], browsers', h')
           ELSE /\ Finish(c, k, Failure(getErrorMessage))
                /\ UNCHANGED browsers
                /\ pages' = Collected(pages, browsers', h')
    /\ UNCHANGED <<process, engine>>
    /\ UNCHANGED snap

\* -------------------------------------------------------------- closePage
closePage(c, n, pageId, cap) ==
    /\ HasMessage(c, n, cap)
    /\ IF pageId = ""
       THEN Answer(c, n, Failure("pageId is required"))
       ELSE IF findPage(pageId) = 0
       THEN Answer(c, n, Envelope(FALSE, "Page not found", pageId, "", <<>>))
       ELSE LET d == findPage(pageId) IN
            Suspend(c, n, Await("cp_close", "", pageId, d, MapGet(pages[d], pageId), 0))
    /\ UNCHANGED <<process, registry, engine>>
    /\ UNCHANGED snap

\* closePage that drops a session with its last page.
closePageResume_DropsEmptySession(c, k) ==
    /\ Running
    /\ h[c][k].pc = "cp_close"
    /\ LET d == h[c][k].bd
           pageId == h[c][k].pageId
       IN \E ok \in BOOLEAN :
        IF ok
        THEN /\ pageOpen' = [pageOpen EXCEPT ![h[c][k].page] = FALSE]
             /\ socket' = [socket EXCEPT ![c] =
                    Closed(SocketEnd(@, Success("Page closed")), OthersIdle(c, k))]
             /\ sent' = Sent(c, Success("Page closed"))
             /\ h' = [cc \in Conns |-> [kk \in Slots |->
                    IF cc = c /\ kk = k THEN Idle
                    ELSE IF h[cc][kk].pc = "cb_page" /\ h[cc][kk].bd = d
                            /\ MapHas(pages[d], pageId)
                    THEN [h[cc][kk] EXCEPT
                            !.it = IterAfterDelete(@, MapIndex(pages[d], pageId))]
                    ELSE h[cc][kk]]]
             /\ browsers' = IF MapDelete(pages[d], pageId) = <<>>
                          THEN SelectSeq(browsers, LAMBDA e : e.v # d)
                          ELSE browsers
             /\ pages' = Collected([pages EXCEPT ![d] = MapDelete(@, pageId)], browsers', h')
        ELSE /\ Finish(c, k, Failure(getErrorMessage))
             /\ UNCHANGED <<pageOpen, browsers>>
             /\ pages' = Collected(pages, browsers', h')
    /\ UNCHANGED <<process, browser, ctxOpen, nctx, pageCtx>>
    /\ UNCHANGED snap

\* `await found.page.close()` returns: found.browserData.pages.delete(pageId).
closePageResume(c, k) ==
    /\ Running
    /\ h[c][k].pc = "cp_close"
    /\ LET d == h[c][k].bd
           pageId == h[c][k].pageId
       IN \E ok \in BOOLEAN :
        IF ok
        THEN /\ pageOpen' = [pageOpen EXCEPT ![h[c][k].page] = FALSE]
             /\ socket' = [socket EXCEPT ![c] =
                    Closed(SocketEnd(@, Success("Page closed")), OthersIdle(c, k))]
             /\ sent' = Sent(c, Success("Page closed"))
             /\ h' = [cc \in Conns |-> [kk \in Slots |->
                    IF cc = c /\ kk = k THEN Idle
                    ELSE IF h[cc][kk].pc = "cb_page" /\ h[cc][kk].bd = d
                            /\ MapHas(pages[d], pageId)
                    THEN [h[cc][kk] EXCEPT
                            !.it = IterAfterDelete(@, MapIndex(pages[d], pageId))]
                    ELSE h[cc][kk]]]
             /\ UNCHANGED browsers
             /\ pages' = Collected([pages EXCEPT ![d] = MapDelete(@, pageId)], browsers', h')
        ELSE /\ Finish(c, k, Failure(getErrorMessage))
             /\ UNCHANGED <<pageOpen, browsers>>
             /\ pages' = Collected(pages, browsers', h')
    /\ UNCHANGED <<process, browser, ctxOpen, nctx, pageCtx>>
    /\ UNCHANGED snap

\* ------------------------------------------------------------------- exec
\* exec handing the context of the first session of the registry to the code.
exec_FirstSessionContext(c, n, pageId, cap) ==
    /\ HasMessage(c, n, cap)
    /\ IF pageId = ""
       THEN Answer(c, n, Failure("pageId is required. Create a page first"))
       ELSE IF findPage(pageId) = 0
       THEN Answer(c, n, Envelope(FALSE, "Page not found", pageId, "", <<>>))
       ELSE LET d == findPage(pageId) IN
            Suspend(c, n, Await("ex_run", "", pageId, browsers[1].v,
                                MapGet(pages[d], pageId), 0))
    /\ UNCHANGED <<process, registry, engine>>
    /\ UNCHANGED snap

\* getErrorMessage(err) of the SyntaxError new AsyncFunction(...) throws
syntaxErrorMessage == "syntax error"

\* exec with new AsyncFunction(...) ahead of the try block: the SyntaxError
\* reaches the outer catch.
exec_CompilesOutsideTry(c, n, pageId, cap) ==
    /\ HasMessage(c, n, cap)
    /\ IF pageId = ""
       THEN Answer(c, n, Failure("pageId is required. Create a page first"))
       ELSE IF findPage(pageId) = 0
       THEN Answer(c, n, Envelope(FALSE, "Page not found", pageId, "", <<>>))
       ELSE LET d == findPage(pageId) IN
            \E compiles \in BOOLEAN :
                IF compiles
                THEN Suspend(c, n, Await("ex_run", "", pageId, d, MapGet(pages[d], pageId), 0))
                ELSE Answer(c, n, Failure("Invalid request"))
    /\ UNCHANGED <<process, registry, engine>>
    /\ UNCHANGED snap

\* new AsyncFunction(...) throws a SyntaxError or fn(found.page, browser,
\* found.browserData.context) is awaited.
exec(c, n, pageId, cap) ==
    /\ HasMessage(c, n, cap)
    /\ IF pageId = ""
       THEN Answer(c, n, Failure("pageId is required. Create a page first"))
       ELSE IF findPage(pageId) = 0
       THEN Answer(c, n, Envelope(FALSE, "Page not found", pageId, "", <<>>))
       ELSE LET d == findPage(pageId) IN
            \E compiles \in BOOLEAN :
                IF compiles
                THEN Suspend(c, n, Await("ex_run", "", pageId, d, MapGet(pages[d], pageId), 0))
                ELSE Answer(c, n, Failure(syntaxErrorMessage))
    /\ UNCHANGED <<process, registry, engine>>
    /\ UNCHANGED snap

\* The value undefined, which is no text, and the throwing of an exception.
Undefined == "(undefined)"
Thrown == "(throws)"

\* The values `await fn(...)` resolves to, by what the serialisation reads of
\* them: typeof, whether the value is null, what JSON.stringify(value, null, 2)
\* returns and what String(value) returns.  In this order: undefined, null,
\* {a: 1}, an object with a cycle, an object whose toJSON() returns undefined,
\* 'hi', 42, and () => 1.
ExecValues ==
    {[typeof |-> "undefined", isNull |-> FALSE, json |-> Undefined, string |-> "undefined"],
     [typeof |-> "object", isNull |-> TRUE, json |-> "null", string |-> "null"],
     [typeof |-> "object", isNull |-> FALSE, json |-> "{\n  \"a\": 1\n}",
      string |-> "[object Object]"],
     [typeof |-> "object", isNull |-> FALSE, json |-> Thrown, string |-> "[object Object]"],
     [typeof |-> "object", isNull |-> FALSE, json |-> Undefined, string |-> "[object Object]"],
     [typeof |-> "string", isNull |-> FALSE, json |-> "\"hi\"", string |-> "hi"],
     [typeof |-> "number", isNull |-> FALSE, json |-> "42", string |-> "42"],
     [typeof |-> "function", isNull |-> FALSE, json |-> Undefined, string |-> "() => 1"]}

\* `serialized` of the exec branch
serialized(result) ==
    IF result.typeof = "undefined" THEN "undefined"
    ELSE IF result.isNull THEN "null"
    ELSE IF result.typeof = "object"
    THEN IF result.json = Thrown THEN result.string ELSE result.json
    ELSE result.string

\* `await fn(...)` resolves to result: the handler answers with
\* JSON.stringify({success: true, result: serialized}), which has no `result`
\* when serialized is undefined.
execReturned(c, k, result) ==
    /\ Running
    /\ h[c][k].pc = "ex_run"
    /\ Finish(c, k, Success(serialized(result)))
    /\ UNCHANGED <<process, browsers, engine>>
    /\ pages' = Collected(pages, browsers', h')
    /\ UNCHANGED snap

\* The code throws or `await fn(...)` rejects, a timeout of the engine included.
execThrew(c, k) ==
    /\ Running
    /\ h[c][k].pc = "ex_run"
    /\ Finish(c, k, Failure(getErrorMessage))
    /\ UNCHANGED <<process, browsers, engine>>
    /\ pages' = Collected(pages, browsers', h')
    /\ UNCHANGED snap

execResume(c, k) ==
    \/ \E result \in ExecValues : execReturned(c, k, result)
    \/ execThrew(c, k)

\* ------------------------------------- goto, click, fill, ..., scroll
\* Every page-scoped command with one awaited call on found.page.
pageCommand(c, n, pageId, cap) ==
    /\ HasMessage(c, n, cap)
    /\ IF findPage(pageId) = 0
       THEN Answer(c, n, Envelope(FALSE, "Page not found", pageId, "", <<>>))
       ELSE LET d == findPage(pageId) IN
            Suspend(c, n, Await("pg_op", "", pageId, d, MapGet(pages[d], pageId), 0))
    /\ UNCHANGED <<process, registry, engine>>
    /\ UNCHANGED snap

\* A page command that drops the page from the registry when its call fails.
pageCommandResume_ForgetsPage(c, k) ==
    /\ Running
    /\ h[c][k].pc = "pg_op"
    /\ UNCHANGED <<process, browsers, engine>>
    /\ \E ok \in BOOLEAN :
        /\ ok => pageOpen[h[c][k].page]
        /\ IF ok
           THEN /\ Finish(c, k, Success("done"))
                /\ pages' = Collected(pages, browsers', h')
           ELSE /\ Finish(c, k, Failure(getErrorMessage))
                /\ pages' = Collected([pages EXCEPT ![h[c][k].bd] =
                                MapDelete(@, h[c][k].pageId)], browsers', h')
    /\ UNCHANGED snap

\* The awaited call on found.page returns or throws.  On its return the
\* handler answers success; goto, back, forward and reload read the result
\* from the handle they hold, found.page.url().
pageCommandResume(c, k) ==
    /\ Running
    /\ h[c][k].pc = "pg_op"
    /\ \E ok \in BOOLEAN :
        /\ ok => pageOpen[h[c][k].page]
        /\ IF ok THEN Finish(c, k, Success("done"))
           ELSE Finish(c, k, Failure(getErrorMessage))
    /\ UNCHANGED <<process, browsers, engine>>
    /\ pages' = Collected(pages, browsers', h')
    /\ UNCHANGED snap

\* getUrl: found.page.url() is not awaited; it returns or throws.
getUrl(c, n, pageId, cap) ==
    /\ HasMessage(c, n, cap)
    /\ IF findPage(pageId) = 0
       THEN Answer(c, n, Envelope(FALSE, "Page not found", pageId, "", <<>>))
       ELSE \E ok \in BOOLEAN :
                IF ok THEN Answer(c, n, Success("url"))
                ELSE Answer(c, n, Failure(getErrorMessage))
    /\ UNCHANGED <<process, registry, engine>>
    /\ UNCHANGED snap

\* --------------------------------------------------------------- snapshot
\* `@e${refCounter}`
Ref(refCounter) == <<"@", "e">> \o Decimal(refCounter)

\* The annotation with refCounter incremented on blank lines as well.
RECURSIVE linesWithRefs_CountsBlank(_, _)
linesWithRefs_CountsBlank(lines, refCounter) ==
    IF lines = <<>> THEN <<>>
    ELSE IF ~IsBlank(Head(lines))
    THEN <<Ref(refCounter) \o <<" ">> \o Head(lines)>>
            \o linesWithRefs_CountsBlank(Tail(lines), refCounter + 1)
    ELSE <<Head(lines)>> \o linesWithRefs_CountsBlank(Tail(lines), refCounter + 1)

\* lines.map(...) with refCounter: a line with line.trim() truthy becomes
\* `${ref} ${line}` and takes the next number, any other line is returned
\* as it is.
RECURSIVE linesWithRefs(_, _)
linesWithRefs(lines, refCounter) ==
    IF lines = <<>> THEN <<>>
    ELSE IF ~IsBlank(Head(lines))
    THEN <<Ref(refCounter) \o <<" ">> \o Head(lines)>>
            \o linesWithRefs(Tail(lines), refCounter + 1)
    ELSE <<Head(lines)>> \o linesWithRefs(Tail(lines), refCounter)

\* line.match(/^@e\d+ (\s*)/): the length of what `^@e\d+ ` matches, 0 when
\* the line does not match.
RefLength(line) ==
    IF Len(line) >= 2 /\ line[1] = "@" /\ line[2] = "e"
    THEN LET IsDigit(i) == \E d \in 1..10 : line[i] = Digits[d]
             n == CHOOSE n \in 0..(Len(line) - 2) :
                    /\ \A i \in 3..(2 + n) : IsDigit(i)
                    /\ 2 + n < Len(line) => ~IsDigit(3 + n)
         IN IF n >= 1 /\ Len(line) >= n + 3 /\ line[n + 3] = " " THEN n + 3 ELSE 0
    ELSE 0

\* indent[1].length: the whitespace that follows the reference and its space.
IndentLength(line) ==
    LET rest == SubSeq(line, RefLength(line) + 1, Len(line))
    IN Len(rest) - Len(TrimStart(rest))

\* The filter keeping the lines whose depth is at most maxDepth.
Kept_Inclusive(line, maxDepth) ==
    \/ RefLength(line) = 0
    \/ IndentLength(line) <= 2 * maxDepth

\* The filter's callback: a line that does not match is kept; of the others
\* those with depth = indent[1].length / 2 < request.maxDepth.
Kept(line, maxDepth) ==
    \/ RefLength(line) = 0
    \/ IndentLength(line) < 2 * maxDepth

\* if (request.maxDepth): neither absent, nor null, nor 0.
Truthy(maxDepth) == maxDepth # <<>> /\ maxDepth[1] # 0

\* result.replace(/\n/g, ' | ')
RECURSIVE ReplaceNewlines(_)
ReplaceNewlines(text) ==
    IF text = <<>> THEN <<>>
    ELSE IF Head(text) = "\n" THEN <<" ", "|", " ">> \o ReplaceNewlines(Tail(text))
    ELSE <<Head(text)>> \o ReplaceNewlines(Tail(text))

\* result.replace(/\s+/g, ' ')
RECURSIVE CollapseWhitespace(_)
CollapseWhitespace(text) ==
    IF text = <<>> THEN <<>>
    ELSE IF Head(text) \in Whitespace
    THEN <<" ">> \o CollapseWhitespace(TrimStart(text))
    ELSE <<Head(text)>> \o CollapseWhitespace(Tail(text))

\* The formatter with the references assigned after the depth filter.
snapshotResult_RefsAfterFilter(snapshot, maxDepth, compact) ==
    LET lines == Split(snapshot)
        Shallow(line) ==
            IsBlank(line) \/ Len(line) - Len(TrimStart(line)) < 2 * maxDepth[1]
        result == IF Truthy(maxDepth)
                  THEN Join(linesWithRefs(SelectSeq(lines, Shallow), 0))
                  ELSE Join(linesWithRefs(lines, 0))
    IN IF compact THEN Trim(CollapseWhitespace(ReplaceNewlines(result))) ELSE result

\* The formatter with the compaction applied before the depth filter.
snapshotResult_CompactsFirst(snapshot, maxDepth, compact) ==
    LET full == Join(linesWithRefs(Split(snapshot), 0))
        text == IF compact THEN Trim(CollapseWhitespace(ReplaceNewlines(full))) ELSE full
    IN IF Truthy(maxDepth)
       THEN Join(SelectSeq(Split(text), LAMBDA line : Kept(line, maxDepth[1])))
       ELSE text

\* `result` of the snapshot branch for the text ariaSnapshot() returned: the
\* references, the depth limit if request.maxDepth is truthy, the compaction
\* if request.compact is.
snapshotResult(snapshot, maxDepth, compact) ==
    LET lines == Split(snapshot)
        result == IF Truthy(maxDepth)
                  THEN Join(SelectSeq(linesWithRefs(lines, 0),
                                      LAMBDA line : Kept(line, maxDepth[1])))
                  ELSE Join(linesWithRefs(lines, 0))
    IN IF compact THEN Trim(CollapseWhitespace(ReplaceNewlines(result))) ELSE result

\* snapshot: `await found.page.locator('body').ariaSnapshot()` returns the
\* text or throws; the handler formats the text and answers with `result`.
snapshotResume(c, k) ==
    /\ Running
    /\ h[c][k].pc = "pg_op"
    /\ snap.pc = "await"
    /\ \E ok \in BOOLEAN :
        /\ ok => pageOpen[h[c][k].page]
        /\ IF ok
           THEN LET result == snapshotResult(snap.snapshot, snap.maxDepth, snap.compact) IN
                /\ Finish(c, k, Success(result))
                /\ snap' = [snap EXCEPT !.pc = "done", !.result = result]
           ELSE /\ Finish(c, k, Failure(getErrorMessage))
                /\ snap' = [snap EXCEPT !.pc = "failed"]
    /\ UNCHANGED <<process, browsers, engine>>
    /\ pages' = Collected(pages, browsers', h')

\* ------------------------------------------ listBrowsers, listPages, ping
listBrowsersCommand(c, n, cap) ==
    /\ HasMessage(c, n, cap)
    /\ Answer(c, n, Envelope(TRUE, "browsers", "", "", listBrowsers))
    /\ UNCHANGED <<process, registry, engine>>
    /\ UNCHANGED snap

listPagesCommand(c, n, cap) ==
    /\ HasMessage(c, n, cap)
    /\ \E bad \in SUBSET RegisteredPages :
            Answer(c, n, Envelope(TRUE, "pages", "", "", PageInfos(bad)))
    /\ UNCHANGED <<process, registry, engine>>
    /\ UNCHANGED snap

ping(c, n, cap) ==
    /\ HasMessage(c, n, cap)
    /\ Answer(c, n, Success("pong"))
    /\ UNCHANGED <<process, registry, engine>>
    /\ UNCHANGED snap

\* Messages that name no command of the if-chain: text that is not JSON, the
\* JSON values that are no object, an object without `command` and an object
\* whose command is not known.
Malformed == {"{oops", "null", "42", "\"stop\"", "[]", "{}", "{\"command\":\"nope\"}"}

\* JSON.parse(message): the value, or the SyntaxError thrown.
JSONParse(message) == IF message = "{oops" THEN "SyntaxError" ELSE message

\* request.command of a parsed value: reading a property of null throws a
\* TypeError, a number, a string, an array and an object without the
\* property give undefined.
requestCommand(request) ==
    IF request = "null" THEN "TypeError"
    ELSE IF request = "{\"command\":\"nope\"}" THEN "nope"
    ELSE "undefined"

\* Whether the outer try block throws on the message before any branch runs.
Throws(message) ==
    \/ JSONParse(message) = "SyntaxError"
    \/ requestCommand(JSONParse(message)) = "TypeError"

\* JSON.parse throws, or request.command is read from null: the outer catch.
invalidRequest(c, n, message, cap) ==
    /\ HasMessage(c, n, cap)
    /\ Throws(message)
    /\ Answer(c, n, Failure("Invalid request"))
    /\ UNCHANGED <<process, registry, engine>>
    /\ UNCHANGED snap

\* The if-chain without its final else: the handler returns without an answer.
unknownCommand_Unanswered(c, n, message, cap) ==
    /\ HasMessage(c, n, cap)
    /\ ~Throws(message)
    /\ socket' = [socket EXCEPT ![c] = Sliced(c, n)]
    /\ UNCHANGED <<sent, h>>
    /\ UNCHANGED <<process, registry, engine>>
    /\ UNCHANGED snap

\* the final else branch: request.command equals none of the commands
unknownCommand(c, n, message, cap) ==
    /\ HasMessage(c, n, cap)
    /\ ~Throws(message)
    /\ Answer(c, n, Failure("Unknown command"))
    /\ UNCHANGED <<process, registry, engine>>
    /\ UNCHANGED snap


\* -------------------------------------------------------- stop and shutdown
\* Closing context d closes the pages it created.
PagesAfterContextClose(d) == [p \in PageHandles |-> pageOpen[p] /\ pageCtx[p] # d]

\* stop with shutdown() awaited before the envelope is written.
stop_ShutdownFirst(c, n, cap) ==
    /\ HasMessage(c, n, cap)
    /\ socket' = [socket EXCEPT ![c] = Sliced(c, n)]
    /\ sent' = Nothing
    /\ h' = [h EXCEPT ![c][FreeSlot(c)] =
            IF Len(browsers) > 0
            THEN Await("sd_ctx", "", "", browsers[1].v, 0, 1)
            ELSE Await("sd_browser", "", "", 0, 0, 0)]
    /\ UNCHANGED <<process, registry, engine>>
    /\ UNCHANGED snap

\* stop: socket.end(...'stopping') and shutdown() up to its first await: the
\* first `await browserData.context.close()` of the loop over
\* browsers.values(), or, the registry being empty, browsers.clear() and
\* `await browser.close()`.
stop(c, n, cap) ==
    /\ HasMessage(c, n, cap)
    /\ socket' = [socket EXCEPT ![c] = SocketEnd(Sliced(c, n), Success("stopping"))]
    /\ sent' = Sent(c, Success("stopping"))
    /\ h' = [h EXCEPT ![c][FreeSlot(c)] =
            IF Len(browsers) > 0
            THEN Await("sd_ctx", "", "", browsers[1].v, 0, 1)
            ELSE Await("sd_browser", "", "", 0, 0, 0)]
    /\ UNCHANGED <<process, registry, engine>>
    /\ UNCHANGED snap

\* The iterators of the shutdown() calls started by signals, after
\* browsers.clear() by another one than that of signal s.
SigAfterClear(s) ==
    [r \in Signals |->
        IF r # s /\ sig[r].pc = "sd_ctx"
        THEN [sig[r] EXCEPT !.it = 0]
        ELSE sig[r]]

\* shutdown without the try/catch around context.close(): the failure
\* leaves shutdown() and reaches the catch of the stop branch's handler.
shutdownContextClosed_AbortsOnFailure(c, k) ==
    /\ Running
    /\ h[c][k].pc = "sd_ctx"
    /\ LET d == h[c][k].bd
           it == h[c][k].it
       IN \E ok \in BOOLEAN :
        IF ok
        THEN /\ ctxOpen' = [ctxOpen EXCEPT ![d] = FALSE]
             /\ pageOpen' = PagesAfterContextClose(d)
             /\ browsers' = IF it < Len(browsers) THEN browsers ELSE <<>>
             /\ h' = [h EXCEPT ![c][k] =
                    IF it < Len(browsers)
                    THEN [@ EXCEPT !.bd = browsers[it + 1].v, !.it = it + 1]
                    ELSE Await("sd_browser", "", "", 0, 0, 0)]
             /\ sent' = Nothing
             /\ UNCHANGED socket
        ELSE /\ Finish(c, k, Failure("Invalid request"))
             /\ UNCHANGED <<ctxOpen, pageOpen, browsers>>
    /\ UNCHANGED <<process, browser, nctx, pageCtx>>
    /\ pages' = Collected(pages, browsers', h')
    /\ UNCHANGED snap

\* shutdown leaving its loop after the first session.
shutdownContextClosed_LeavesEarly(c, k) ==
    /\ Running
    /\ h[c][k].pc = "sd_ctx"
    /\ \E ok \in BOOLEAN :
         IF ok
         THEN /\ ctxOpen' = [ctxOpen EXCEPT ![h[c][k].bd] = FALSE]
              /\ pageOpen' = PagesAfterContextClose(h[c][k].bd)
         ELSE UNCHANGED <<ctxOpen, pageOpen>>
    /\ browsers' = <<>>
    /\ h' = [h EXCEPT ![c][k] = Await("sd_browser", "", "", 0, 0, 0)]
    /\ sent' = Nothing
    /\ UNCHANGED <<process, browser, nctx, pageCtx, socket>>
    /\ pages' = Collected(pages, browsers', h')
    /\ UNCHANGED snap

\* shutdown: `await browserData.context.close()` returns or throws (the catch
\* is empty); after the last session browsers.clear().
shutdownContextClosed(c, k) ==
    /\ Running
    /\ h[c][k].pc = "sd_ctx"
    /\ LET d == h[c][k].bd
           it == h[c][k].it
       IN
       /\ \E ok \in BOOLEAN :
            IF ok
            THEN /\ ctxOpen' = [ctxOpen EXCEPT ![d] = FALSE]
                 /\ pageOpen' = PagesAfterContextClose(d)
            ELSE UNCHANGED <<ctxOpen, pageOpen>>
       /\ IF it < Len(browsers)
          THEN /\ h' = [h EXCEPT ![c][k] =
                        [@ EXCEPT !.bd = browsers[it + 1].v, !.it = it + 1]]
               /\ UNCHANGED browsers
               /\ UNCHANGED sig
          ELSE /\ browsers' = <<>>
               /\ h' = [cc \in Conns |-> [kk \in Slots |->
                      IF cc = c /\ kk = k THEN Await("sd_browser", "", "", 0, 0, 0)
                      ELSE IF h[cc][kk].pc = "sd_ctx"
                      THEN [h[cc][kk] EXCEPT !.it = 0]
                      ELSE h[cc][kk]]]
               /\ sig' = SigAfterClear(0)
    /\ sent' = Nothing
    /\ UNCHANGED <<proc, socketFile, browser, nctx, pageCtx, socket>>
    /\ pages' = Collected(pages, browsers', h')
    /\ UNCHANGED snap

\* shutdown: `await browser.close()` returns: the socket file is removed,
\* server.close(), process.exit(0). When it throws, the stop branch's
\* `await shutdown()` throws into the handler's outer catch.
shutdownBrowserClosed(c, k) ==
    /\ Running
    /\ h[c][k].pc = "sd_browser"
    /\ \E ok \in BOOLEAN :
        IF ok
        THEN /\ browser' = "closed"
             /\ ctxOpen' = [d \in Ctxs |-> FALSE]
             /\ pageOpen' = [p \in PageHandles |-> FALSE]
             /\ socketFile' = FALSE
             /\ proc' = "exited"
             /\ sent' = Nothing
             /\ UNCHANGED <<socket, h, sig>>
        ELSE /\ Finish(c, k, Failure("Invalid request"))
             /\ UNCHANGED <<process, browser, ctxOpen, pageOpen>>
    /\ UNCHANGED <<browsers, nctx, pageCtx>>
    /\ pages' = Collected(pages, browsers', h')
    /\ UNCHANGED snap

\* process.on('SIGINT', shutdown) / process.on('SIGTERM', shutdown): the
\* signal arrives and shutdown() runs up to its first await.
signal(s, cap) ==
    /\ Running
    /\ InFlight < cap
    /\ sig[s].pc = "idle"
    /\ \A r \in 1..(s - 1) : sig[r].pc # "idle"
    /\ sig' = [sig EXCEPT ![s] =
            IF Len(browsers) > 0
            THEN Await("sd_ctx", "", "", browsers[1].v, 0, 1)
            ELSE Await("sd_browser", "", "", 0, 0, 0)]
    /\ UNCHANGED <<proc, socketFile, registry, engine, socket, sent, h>>
    /\ UNCHANGED snap

\* shutdown() of a signal: `await browserData.context.close()` returns or
\* throws (the catch is empty); after the last session browsers.clear().
signalContextClosed(s) ==
    /\ Running
    /\ sig[s].pc = "sd_ctx"
    /\ LET d == sig[s].bd
           it == sig[s].it
       IN
       /\ \E ok \in BOOLEAN :
            IF ok
            THEN /\ ctxOpen' = [ctxOpen EXCEPT ![d] = FALSE]
                 /\ pageOpen' = PagesAfterContextClose(d)
            ELSE UNCHANGED <<ctxOpen, pageOpen>>
       /\ IF it < Len(browsers)
          THEN /\ sig' = [sig EXCEPT ![s] =
                        [@ EXCEPT !.bd = browsers[it + 1].v, !.it = it + 1]]
               /\ UNCHANGED <<browsers, h>>
          ELSE /\ browsers' = <<>>
               /\ sig' = [SigAfterClear(s) EXCEPT ![s] = Await("sd_browser", "", "", 0, 0, 0)]
               /\ h' = [cc \in Conns |-> [kk \in Slots |->
                      IF h[cc][kk].pc = "sd_ctx"
                      THEN [h[cc][kk] EXCEPT !.it = 0]
                      ELSE h[cc][kk]]]
    /\ UNCHANGED <<proc, socketFile, browser, nctx, pageCtx, socket, sent>>
    /\ pages' = Collected(pages, browsers', h')
    /\ UNCHANGED snap

\* shutdown() of a signal: `await browser.close()` returns: the socket file is
\* removed, server.close(), process.exit(0). When it throws, the promise the
\* listener returned is rejected and nothing handles it: the process ends
\* with the uncaught error.
signalBrowserClosed(s) ==
    /\ Running
    /\ sig[s].pc = "sd_browser"
    /\ \E ok \in BOOLEAN :
        IF ok
        THEN /\ browser' = "closed"
             /\ ctxOpen' = [d \in Ctxs |-> FALSE]
             /\ pageOpen' = [p \in PageHandles |-> FALSE]
             /\ socketFile' = FALSE
             /\ proc' = "exited"
        ELSE /\ proc' = "crashed"
             /\ UNCHANGED <<socketFile, browser, ctxOpen, pageOpen>>
    /\ UNCHANGED <<registry, nctx, pageCtx, socket, sent, h, sig>>
    /\ UNCHANGED snap

\* The socket of the last socket.end call emits 'error', which has no
\* listener, and the process ends with the uncaught exception: the write
\* failed because the client had disconnected (EPIPE), or the call was made
\* after the socket had been ended and before it was destroyed (write after
\* end).
uncaughtException ==
    /\ proc = "listening"
    /\ sent # Nothing
    /\ proc' = "crashed"
    /\ sent' = Nothing
    /\ UNCHANGED <<socketFile, sig, registry, engine, socket, h>>
    /\ UNCHANGED snap

\* The envelope written by the last step has left for the client, or the
\* call was made on a destroyed socket and is ignored.
Delivered ==
    /\ sent # Nothing
    /\ sent' = Nothing
    /\ UNCHANGED <<process, registry, engine, socket, h>>
    /\ UNCHANGED snap

\* ------------------------------------------------------------ specification
\* Every step of the daemon: a message is dispatched while fewer than cap
\* handlers are suspended, and a chunk has at most chunk messages.
Step(cap, chunk) ==
    \/ startServer
    \/ Launched
    \/ Delivered
    \/ uncaughtException
    \/ \E s \in Signals :
        \/ signal(s, cap)
        \/ signalContextClosed(s)
        \/ signalBrowserClosed(s)
    \/ \E c \in Conns : DataNoNewline(c)
    \/ \E c \in Conns, n \in 0..chunk :
        \/ newBrowser(c, n, cap)
        \/ listBrowsersCommand(c, n, cap)
        \/ listPagesCommand(c, n, cap)
        \/ ping(c, n, cap)
        \/ stop(c, n, cap)
    \/ \E c \in Conns, n \in 0..chunk, message \in Malformed :
        \/ invalidRequest(c, n, message, cap)
        \/ unknownCommand(c, n, message, cap)
    \/ \E c \in Conns, n \in 0..chunk, bid \in BrowserRequestIds :
        \/ closeBrowser(c, n, bid, cap)
        \/ newPage(c, n, bid, cap)
    \/ \E c \in Conns, n \in 0..chunk, pageId \in PageRequestIds :
        \/ closePage(c, n, pageId, cap)
        \/ exec(c, n, pageId, cap)
        \/ pageCommand(c, n, pageId, cap)
        \/ getUrl(c, n, pageId, cap)
    \/ \E c \in Conns, k \in Slots :
        \/ newBrowserResume(c, k)
        \/ closeBrowserPageClosed(c, k)
        \/ closeBrowserContextClosed(c, k)
        \/ getOrCreateDefaultBrowser(c, k)
        \/ newPageCreated(c, k)
        \/ newPageNavigated(c, k)
        \/ closePageResume(c, k)
        \/ execResume(c, k)
        \/ pageCommandResume(c, k)
        \/ shutdownContextClosed(c, k)
        \/ shutdownBrowserClosed(c, k)

Next == Step(MaxInFlight, MaxChunk)

Spec == Init /\ [][Next]_vars

\* The requests that reach the default session, newPage and closeBrowser,
\* with up to MaxRacing handlers suspended at a time.
NextRace ==
    \/ startServer
    \/ Launched
    \/ Delivered
    \/ uncaughtException
    \/ \E c \in Conns, n \in 0..MaxChunk, bid \in {"", DEFAULT_BROWSER_ID} :
        \/ newPage(c, n, bid, MaxRacing)
        \/ closeBrowser(c, n, bid, MaxRacing)
    \/ \E c \in Conns, k \in Slots :
        \/ getOrCreateDefaultBrowser(c, k)
        \/ newPageCreated(c, k)
        \/ newPageNavigated(c, k)
        \/ closeBrowserPageClosed(c, k)
        \/ closeBrowserContextClosed(c, k)

SpecRace == Init /\ [][NextRace]_vars

\* The framing: chunks of up to MaxBurst messages, a message dispatched
\* while fewer than MaxRacing handlers are suspended, for a command that
\* answers at once (ping) and one that awaits the engine (newBrowser).
NextFraming ==
    \/ startServer
    \/ Launched
    \/ Delivered
    \/ uncaughtException
    \/ \E c \in Conns : DataNoNewline(c)
    \/ \E c \in Conns, n \in 0..MaxBurst :
        \/ ping(c, n, MaxRacing)
        \/ newBrowser(c, n, MaxRacing)
    \/ \E c \in Conns, k \in Slots : newBrowserResume(c, k)

SpecFraming == Init /\ [][NextFraming]_vars

\* The awaited engine call of handler k of connection c returns or throws.
Returns(c, k) ==
    \/ getOrCreateDefaultBrowser(c, k)
    \/ newPageCreated(c, k)
    \/ newPageNavigated(c, k)
    \/ shutdownContextClosed(c, k)
    \/ shutdownBrowserClosed(c, k)

\* The connections: a message is dispatched while fewer than MaxRacing
\* handlers are suspended, for a command that answers at once (ping), one
\* that awaits the engine three times (newPage in the default session) and
\* stop, which ends the process.
NextLive ==
    \/ startServer
    \/ Launched
    \/ Delivered
    \/ uncaughtException
    \/ \E c \in Conns, n \in 0..MaxChunk :
        \/ ping(c, n, MaxRacing)
        \/ newPage(c, n, "", MaxRacing)
        \/ stop(c, n, MaxRacing)
    \/ \E c \in Conns, k \in Slots : Returns(c, k)

\* Every engine call returns and every write leaves, however many other
\* events the loop has to serve.
SpecLive ==
    /\ Init
    /\ [][NextLive]_vars
    /\ WF_vars(Delivered)
    /\ \A c \in Conns, k \in Slots : SF_vars(Returns(c, k))

\* The snapshot branch at its await, for the page of the default session, on
\* every text ariaSnapshot() can return and every request.maxDepth and
\* request.compact.
InitSnapshot ==
    /\ proc = "listening"
    /\ socketFile = TRUE
    /\ browser = "open"
    /\ browsers = <<[k |-> DEFAULT_BROWSER_ID, v |-> 1]>>
    /\ pages = [d \in Ctxs |-> IF d = 1 THEN <<[k |-> "id1", v |-> 1]>> ELSE <<>>]
    /\ ctxOpen = [d \in Ctxs |-> d = 1]
    /\ nctx = 1
    /\ pageOpen = [p \in PageHandles |-> p = 1]
    /\ pageCtx = [p \in PageHandles |-> IF p = 1 THEN 1 ELSE 0]
    /\ socket = [c \in Conns |-> IF c = 1 THEN [FreshSocket EXCEPT !.dispatched = 1]
                                  ELSE FreshSocket]
    /\ sent = Nothing
    /\ h = [c \in Conns |-> [k \in Slots |->
            IF c = 1 /\ k = 1 THEN Await("pg_op", "", "id1", 1, 1, 0) ELSE Idle]]
    /\ sig = [s \in Signals |-> Idle]
    /\ \E snapshot \in Snapshots, maxDepth \in MaxDepths, compact \in BOOLEAN :
            snap = [pc |-> "await", snapshot |-> snapshot, maxDepth |-> maxDepth,
                    compact |-> compact, result |-> <<>>]

NextSnapshot ==
    \/ \E c \in Conns, k \in Slots : snapshotResume(c, k)
    \/ Delivered
    \/ uncaughtException

SpecSnapshot == InitSnapshot /\ [][NextSnapshot]_vars

\* The commands on pages, with up to MaxRacing handlers suspended at a time:
\* newPage in the default session, closePage, a page-scoped command, and
\* closeBrowser of the default session.
NextPages ==
    \/ startServer
    \/ Launched
    \/ Delivered
    \/ uncaughtException
    \/ \E c \in Conns, n \in 0..MaxChunk :
        \/ newPage(c, n, "", MaxRacing)
        \/ closeBrowser(c, n, DEFAULT_BROWSER_ID, MaxRacing)
    \/ \E c \in Conns, n \in 0..MaxChunk, pageId \in IdPool :
        \/ closePage(c, n, pageId, MaxRacing)
        \/ pageCommand(c, n, pageId, MaxRacing)
    \/ \E c \in Conns, k \in Slots :
        \/ getOrCreateDefaultBrowser(c, k)
        \/ newPageCreated(c, k)
        \/ newPageNavigated(c, k)
        \/ closePageResume(c, k)
        \/ pageCommandResume(c, k)
        \/ closeBrowserPageClosed(c, k)
        \/ closeBrowserContextClosed(c, k)

SpecPages == Init /\ [][NextPages]_vars

\* The shutdown among the handlers, with up to MaxRacing handlers and
\* signal listeners suspended at a time: stop and the signals beside the
\* commands that add to the registry, newBrowser and newPage in the default
\* session.
NextStop ==
    \/ startServer
    \/ Launched
    \/ Delivered
    \/ uncaughtException
    \/ \E s \in Signals :
        \/ signal(s, MaxRacing)
        \/ signalContextClosed(s)
        \/ signalBrowserClosed(s)
    \/ \E c \in Conns, n \in 0..MaxChunk :
        \/ newBrowser(c, n, MaxRacing)
        \/ newPage(c, n, "", MaxRacing)
        \/ stop(c, n, MaxRacing)
    \/ \E c \in Conns, k \in Slots :
        \/ newBrowserResume(c, k)
        \/ getOrCreateDefaultBrowser(c, k)
        \/ newPageCreated(c, k)
        \/ newPageNavigated(c, k)
        \/ shutdownContextClosed(c, k)
        \/ shutdownBrowserClosed(c, k)

SpecStop == Init /\ [][NextStop]_vars

\* An engine call can hang: the calls return, and the writes leave, but for
\* the calls made for the first connection accepted, which may never return.
SpecHung ==
    /\ Init
    /\ [][NextLive]_vars
    /\ WF_vars(Delivered)
    /\ \A c \in Conns \ {1}, k \in Slots : SF_vars(Returns(c, k))

\* ------------------------------------------------------------------ claims
\* The sessions of the registry, as positions of the Map.
Sessions == 1..Len(browsers)
\* The page Map of the session at position i.
PagesOf(i) == pages[browsers[i].v]
\* Handler k of connection c ends in this step with a success envelope.
Succeeds(c, k, pc) ==
    /\ h[c][k].pc = pc
    /\ h'[c][k].pc = "idle"
    /\ sent'.conn = c
    /\ sent'.env.success

\* C1: in every reachable state of the registry no page id is a key in the
\* page maps of two different sessions.
C1_NoPageIdInTwoSessions ==
    \A i, j \in Sessions :
        i # j => MapKeys(PagesOf(i)) \cap MapKeys(PagesOf(j)) = {}

\* C2: the page id a successful newPage returns is, at the moment it is
\* registered, not a key of the page map of any session, so that
\* pages.set adds an entry and replaces none.
C2_NewPageIdIsFresh ==
    [][\A c \in Conns, k \in Slots :
        Succeeds(c, k, "np_goto")
            => \A i \in Sessions : ~MapHas(PagesOf(i), h[c][k].pageId)]_vars

\* The step answers on connection c with the failure envelope given, calls
\* nothing of the engine and leaves the registry and the handlers alone.
Refused(c, msg, pid, bid) ==
    /\ sent'.conn = c
    /\ sent'.env = Envelope(FALSE, msg, pid, bid, <<>>)
    /\ UNCHANGED <<registry, engine, h>>

\* C3: once closePage for p has completed successfully findPage(p) is
\* not-found, as it is at all times for an id no newPage returned.
C3_ClosedPageNotFound ==
    [][/\ \A c \in Conns, k \in Slots, p \in IdPool :
            (Succeeds(c, k, "cp_close") /\ h[c][k].pageId = p) => findPage(p)' = 0
       /\ findPage(NeverIssued)' = 0]_vars

\* C4: once closeBrowser for session s has completed successfully no page
\* id of the page map of s is found by findPage, listPages has no entry of
\* s and listBrowsers has no entry for s.
C4_ClosedSessionGone ==
    [][\A c \in Conns, k \in Slots :
        Succeeds(c, k, "cb_ctx") =>
            /\ \A pid \in MapKeys(pages[h[c][k].bd]) : findPage(pid)' = 0
            /\ \A i \in 1..Len(listPages') :
                    listPages'[i].browserId # h[c][k].browserId
            /\ \A i \in 1..Len(listBrowsers') :
                    listBrowsers'[i].browserId # h[c][k].browserId]_vars

\* C5: newPage naming a browserId that is neither 'default' nor a key of
\* the registry answers with the failure envelope naming that id and changes
\* nothing: no session and no page is added, no handler is left suspended.
C5_NewPageUnknownBrowser ==
    [][\A c \in Conns, n \in 0..MaxBurst, bid \in IdPool :
        (newPage(c, n, bid, MaxRacing) /\ ~MapHas(browsers, bid))
            => Refused(c, "Browser not found. Create one", "", bid)]_vars

\* newPage has just refused an id of no session while the registry holds the
\* default session and another one.
C5_Refused ==
    /\ sent.conn # 0
    /\ sent.written
    /\ sent.env.msg = "Browser not found. Create one"
    /\ Len(browsers) = 2
    /\ MapHas(browsers, DEFAULT_BROWSER_ID)
    /\ ~MapHas(browsers, sent.env.browserId)

\* C6: closeBrowser and closePage on an id absent from the registry answer
\* with the failure envelope naming the id, call nothing of the engine and
\* leave the registry unchanged; and an id closed successfully is absent,
\* so that closing it again fails.
C6_AbsentCloseFails ==
    [][/\ \A c \in Conns, n \in 0..MaxBurst, bid \in BrowserRequestIds \ {""} :
            (closeBrowser(c, n, bid, MaxRacing) /\ ~MapHas(browsers, bid))
                => Refused(c, "Browser not found", "", bid)
       /\ \A c \in Conns, n \in 0..MaxBurst, pid \in PageRequestIds \ {""} :
            (closePage(c, n, pid, MaxRacing) /\ findPage(pid) = 0)
                => Refused(c, "Page not found", pid, "")
       /\ \A c \in Conns, k \in Slots :
            /\ Succeeds(c, k, "cb_ctx") => ~MapHas(browsers', h[c][k].browserId)
            /\ Succeeds(c, k, "cp_close") =>
                    \A d \in Ctxs : ~MapHas(pages'[d], h[c][k].pageId)]_vars

\* C7: an entry registered under 'default' is never replaced by another
\* instance: as long as the entry stays, its instance stays.
C7_DefaultNeverReplaced ==
    [][(MapHas(browsers, DEFAULT_BROWSER_ID) /\ MapHas(browsers', DEFAULT_BROWSER_ID))
        => MapGet(browsers', DEFAULT_BROWSER_ID) = MapGet(browsers, DEFAULT_BROWSER_ID)]_vars

\* C8: when exec for page id p calls the supplied code, `page` is the page
\* registered under p, `context` is the context of the session findPage(p)
\* returned and created that page, and `browser` is the launched instance.
C8_ExecBindsOwnSession ==
    [][\A c \in Conns, k \in Slots :
        (h[c][k].pc = "idle" /\ h'[c][k].pc = "ex_run") =>
            LET p == h'[c][k].pageId
                d == findPage(p)
            IN /\ d # 0
               /\ h'[c][k].bd = d
               /\ h'[c][k].page = MapGet(pages[d], p)
               /\ pageCtx[h'[c][k].page] = d
               /\ browser = "open"]_vars

\* exec runs for a page of the second session while the first has a page too.
C8_ExecInSecondSession ==
    \E c \in Conns, k \in Slots :
        /\ h[c][k].pc = "ex_run"
        /\ Len(browsers) = 2
        /\ h[c][k].bd = browsers[2].v
        /\ Len(PagesOf(1)) > 0

\* C9: on every connection at most one command is dispatched and at most
\* one envelope is written.
C9_OneCommandOneEnvelope ==
    \A c \in Conns : socket[c].dispatched <= 1 /\ socket[c].written <= 1

\* A handler of connection c is suspended and c has had no answer.
Pending(c) == ~socket[c].ended /\ \E k \in Slots : h[c][k].pc # "idle"
\* Connection c has its envelope and the server has ended it.
Answered(c) == socket[c].ended \/ (sent.conn = c /\ sent.written)

ShutdownPcs == {"sd_ctx", "sd_browser"}

\* C11: on a stop command the handler calls socket.end with the success
\* envelope 'stopping', which ends the connection, in the step in which
\* shutdown() starts, with nothing of the registry, the engine, the socket
\* file or the process touched yet; the connection of a shutdown in progress
\* is ended throughout.
C11_StoppingBeforeShutdown ==
    [][\A c \in Conns, k \in Slots :
        /\ (h[c][k].pc = "idle" /\ h'[c][k].pc \in ShutdownPcs) =>
                /\ sent'.conn = c
                /\ sent'.env = Success("stopping")
                /\ socket'[c].ended
                /\ UNCHANGED <<registry, engine, proc, socketFile>>
        /\ (h[c][k].pc \in ShutdownPcs /\ engine' # engine) => socket[c].ended]_vars

\* stop has just answered 'stopping' and its shutdown() awaits the close of
\* the first of two sessions, whose context is still open.
C11_StoppingSent ==
    \E c \in Conns, k \in Slots :
        /\ h[c][k].pc = "sd_ctx"
        /\ sent.conn = c
        /\ sent.written
        /\ sent.env = Success("stopping")
        /\ socket[c].ended
        /\ Len(browsers) = 2
        /\ \A i \in Sessions : ctxOpen[browsers[i].v]

\* The position of a shutdown() goes from x to y by a step of its own: not
\* by the browsers.delete or browsers.clear of another handler under its
\* iterator.
OwnStep(x, y) == y \notin {x, [x EXCEPT !.it = 0], [x EXCEPT !.it = @ - 1]}

\* One step of a shutdown() whose position goes from x to y: the loop starts
\* at the first session, goes on to the next one in registry order, and is
\* left for `await browser.close()` only when no session is left.
LoopInOrder(x, y) ==
    /\ (x.pc = "idle" /\ y.pc = "sd_ctx") => (y.it = 1 /\ y.bd = browsers[1].v)
    /\ (x.pc = "idle" /\ y.pc = "sd_browser") => browsers = <<>>
    /\ (x.pc = "sd_ctx" /\ y.pc = "sd_ctx" /\ OwnStep(x, y)) =>
            (y.it = x.it + 1 /\ y.bd = browsers[y.it].v)
    /\ (x.pc = "sd_ctx" /\ y.pc = "sd_browser") =>
            (x.it >= Len(browsers) /\ browsers' = <<>>)
    /\ (x.pc = "sd_ctx" /\ OwnStep(x, y)) =>
            \/ UNCHANGED engine
            \/ /\ ~ctxOpen'[x.bd]
               /\ \A p \in PageHandles : pageCtx[p] = x.bd => ~pageOpen'[p]
               /\ browser' = browser
    /\ y.pc \in ShutdownPcs => x.pc \in ShutdownPcs \cup {"idle"}

\* C12: shutdown goes through the sessions in registry order, closing each
\* one's context and with it its pages, and releases the engine only after
\* the last of them, with the registry cleared; no page is open in a closed
\* context; the socket file is removed only once the engine is released, and
\* process.exit comes only once the socket file is removed.
C12_ShutdownOrder ==
    /\ [][/\ \A c \in Conns, k \in Slots : LoopInOrder(h[c][k], h'[c][k])
          /\ \A s \in Signals : LoopInOrder(sig[s], sig'[s])
          /\ (browser = "open" /\ browser' = "closed") =>
                /\ \/ \E c \in Conns, k \in Slots : h[c][k].pc = "sd_browser"
                   \/ \E s \in Signals : sig[s].pc = "sd_browser"]_vars
    /\ [](\A p \in PageHandles : pageOpen[p] => ctxOpen[pageCtx[p]])
    /\ [](proc = "listening" => socketFile /\ browser = "open")
    /\ []((browser # "null" /\ ~socketFile) => browser = "closed")
    /\ []((browser # "null" /\ proc = "exited") => ~socketFile)

\* A shutdown has run to process.exit after two sessions and a page had been
\* created: the engine is released and the socket file is gone.
C12_ShutDown ==
    /\ proc = "exited"
    /\ browser = "closed"
    /\ ~socketFile
    /\ nctx = 2
    /\ npage >= 1

\* Where a shutdown() at x goes when the close of its session has returned or
\* thrown: to the next session, or to `await browser.close()`.
AfterSession(x) ==
    IF x.it < Len(browsers)
    THEN [x EXCEPT !.bd = browsers[x.it + 1].v, !.it = x.it + 1]
    ELSE Await("sd_browser", "", "", 0, 0, 0)

\* The close of the session of a shutdown() at x returns or throws: the
\* shutdown goes on as AfterSession has it, and the step answers nothing
\* and ends nothing.
GoesOn(x, y) ==
    (x.pc = "sd_ctx" /\ OwnStep(x, y)) =>
        /\ y = AfterSession(x)
        /\ sent' = Nothing
        /\ UNCHANGED <<proc, socketFile, browser>>

\* C13: whether the close of a session's context returns or throws, shutdown
\* goes on to the next session and after the last one to the release of the
\* engine; once the engine is released the socket file is removed and the
\* process exits.
C13_FailureDoesNotAbort ==
    [][/\ \A c \in Conns, k \in Slots : GoesOn(h[c][k], h'[c][k])
       /\ \A s \in Signals : GoesOn(sig[s], sig'[s])
       /\ (browser = "open" /\ browser' = "closed") =>
                (proc' = "exited" /\ ~socketFile')]_vars

\* A shutdown awaits the close of the second session while the context of
\* the first one, whose close has thrown, is still open.
C13_WentOnAfterFailure ==
    /\ Len(browsers) = 2
    /\ ctxOpen[browsers[1].v]
    /\ \/ \E c \in Conns, k \in Slots : h[c][k].pc = "sd_ctx" /\ h[c][k].it = 2
       \/ \E s \in Signals : sig[s].pc = "sd_ctx" /\ sig[s].it = 2

\* C14: the listening process ends only by the process.exit(0) at the end of
\* a shutdown() started by a stop command or a signal, with the engine
\* released and the socket file removed; no request, engine failure or
\* behaviour of a client ends it.
C14_TerminatesOnlyByShutdown ==
    [][(proc = "listening" /\ proc' # "listening") =>
        /\ proc' = "exited"
        /\ browser' = "closed"
        /\ ~socketFile'
        /\ \/ \E c \in Conns, k \in Slots : h[c][k].pc = "sd_browser"
           \/ \E s \in Signals : sig[s].pc = "sd_browser"]_vars

\* C15: a message that is not JSON, that is a JSON value other than an
\* object, or whose command is not recognised is answered with the failure
\* envelope 'Invalid request: ...' or 'Unknown command'; the step calls
\* nothing of the engine and leaves the registry and the handlers alone.
C15_MalformedRefused ==
    [][\A c \in Conns, n \in 0..MaxBurst, message \in Malformed :
        /\ invalidRequest(c, n, message, MaxRacing) => Refused(c, "Invalid request", "", "")
        /\ unknownCommand(c, n, message, MaxRacing) => Refused(c, "Unknown command", "", "")]_vars

\* A message with an unknown command has just been refused while the
\* registry holds two sessions and a page.
C15_UnknownRefused ==
    /\ sent.conn # 0
    /\ sent.written
    /\ sent.env = Failure("Unknown command")
    /\ Len(browsers) = 2
    /\ \E i \in Sessions : Len(PagesOf(i)) > 0

\* C16: every page-scoped command whose request lacks pageId is answered
\* with the failure envelope that reports the missing field, not with the
\* not-found one; the step calls nothing of the engine and leaves the
\* registry and the handlers alone.
C16_MissingPageIdReported ==
    [][\A c \in Conns, n \in 0..MaxBurst :
        (\/ closePage(c, n, "", MaxRacing)
         \/ exec(c, n, "", MaxRacing)
         \/ pageCommand(c, n, "", MaxRacing)
         \/ getUrl(c, n, "", MaxRacing)) =>
            /\ sent'.conn = c
            /\ ~sent'.env.success
            /\ sent'.env.msg \in {"pageId is required",
                                  "pageId is required. Create a page first"}
            /\ UNCHANGED <<registry, engine, h>>]_vars

\* The registry as the program can read it: the sessions in order, each with
\* its id, its context and its page map.
RegistryView ==
    [i \in Sessions |-> <<browsers[i].k, browsers[i].v, PagesOf(i)>>]

\* C17: for every command, the step in which its engine call fails answers
\* with the failure envelope that carries the failure's message and leaves
\* the registry as it was; and since the next engine call of the command can
\* fail as well, a step after which the command goes on to another engine
\* call leaves the registry as it was, too.
C17_EngineFailureLeavesRegistry ==
    [][\A c \in Conns, k \in Slots :
        (h[c][k].pc \notin ShutdownPcs \cup {"idle"} /\ h'[c][k] # h[c][k]) =>
            /\ (h'[c][k].pc = "idle" /\ ~sent'.env.success) =>
                    /\ sent'.conn = c
                    /\ sent'.env = Failure(getErrorMessage)
                    /\ RegistryView' = RegistryView
            /\ h'[c][k].pc # "idle" => RegistryView' = RegistryView]_vars

\* C18: ping, listBrowsers, listPages and the page-scoped interaction,
\* getter, wait, state-check and snapshot commands leave the registry as it
\* is, in the step that dispatches them and in the step in which their
\* engine call returns or throws.
C18_ReadOnlyCommands ==
    [][/\ \A c \in Conns, n \in 0..MaxBurst :
            (\/ ping(c, n, MaxRacing)
             \/ listBrowsersCommand(c, n, MaxRacing)
             \/ listPagesCommand(c, n, MaxRacing)
             \/ \E pageId \in PageRequestIds :
                    \/ pageCommand(c, n, pageId, MaxRacing)
                    \/ getUrl(c, n, pageId, MaxRacing))
                => RegistryView' = RegistryView
       /\ \A c \in Conns, k \in Slots :
            (h[c][k].pc = "pg_op" /\ h'[c][k].pc = "idle")
                => RegistryView' = RegistryView]_vars

\* A page command has just succeeded while the registry holds two sessions
\* with a page each.
C18_PageCommandDone ==
    /\ sent.conn # 0
    /\ sent.written
    /\ sent.env = Success("done")
    /\ Len(browsers) = 2
    /\ \A i \in Sessions : Len(PagesOf(i)) = 1

\* The (session id, page id) pairs of the registry.
RegisteredPairs ==
    UNION {{<<browsers[i].k, pid>> : pid \in MapKeys(PagesOf(i))} : i \in Sessions}

\* The list has no two entries for one key.
OneEach(list, Key(_)) ==
    \A i, j \in 1..Len(list) : Key(list[i]) = Key(list[j]) => i = j

PairOf(e) == <<e.browserId, e.pageId>>
SessionOf(e) == e.browserId

\* C19: the list listPages answers with has exactly one entry for every
\* (session, page) pair of the registry, with the session's id, and with url
\* 'unknown' for the pages whose url() throws, none being dropped; the list
\* listBrowsers answers with has exactly one entry for every session, with
\* pageCount the size of its page map and isDefault true for 'default' only.
C19_ListsProjectRegistry ==
    /\ [](\A bad \in SUBSET RegisteredPages :
            LET list == PageInfos(bad) IN
            /\ {PairOf(list[i]) : i \in 1..Len(list)} = RegisteredPairs
            /\ OneEach(list, PairOf)
            /\ \A i \in 1..Len(list), s \in Sessions :
                    (browsers[s].k = list[i].browserId) =>
                        /\ MapHas(PagesOf(s), list[i].pageId)
                        /\ (list[i].url = "unknown") <=>
                                (MapGet(PagesOf(s), list[i].pageId) \in bad))
    /\ [](/\ {SessionOf(listBrowsers[i]) : i \in 1..Len(listBrowsers)} = MapKeys(browsers)
          /\ OneEach(listBrowsers, SessionOf)
          /\ \A i \in 1..Len(listBrowsers) :
                LET e == listBrowsers[i] IN
                /\ e.pageCount = Cardinality(MapKeys(pages[MapGet(browsers, e.browserId)]))
                /\ e.isDefault <=> (e.browserId = DEFAULT_BROWSER_ID))
    /\ [][\A c \in Conns, n \in 0..MaxBurst :
            /\ listPagesCommand(c, n, MaxRacing) =>
                    /\ sent'.conn = c
                    /\ sent'.env.success
                    /\ \E bad \in SUBSET RegisteredPages : sent'.env.list = PageInfos(bad)
                    /\ Len(sent'.env.list) = Cardinality(RegisteredPairs)
            /\ listBrowsersCommand(c, n, MaxRacing) =>
                    /\ sent'.conn = c
                    /\ sent'.env.success
                    /\ sent'.env.list = listBrowsers]_vars

\* listPages has just answered with the pages of two sessions, one of them
\* with url 'unknown'.
C19_ListedWithUnknown ==
    /\ sent.conn # 0
    /\ sent.written
    /\ sent.env.msg = "pages"
    /\ Len(sent.env.list) = 2
    /\ sent.env.list[1].browserId # sent.env.list[2].browserId
    /\ sent.env.list[1].url = "unknown"
    /\ sent.env.list[2].url = "url"

\* What listBrowsers shows when the registry holds the default session alone,
\* with n pages.
OnlyDefault(n) ==
    <<[browserId |-> DEFAULT_BROWSER_ID, pageCount |-> n, isDefault |-> TRUE]>>

\* C20: with the registry empty, a newPage request without browserId
\* registers nothing until its context is created; the context is then
\* registered as the session 'default', the only one, and when the request
\* succeeds listBrowsers shows exactly that session, marked as default, with
\* pageCount 1.
C20_DefaultCreatedLazily ==
    [][\A c \in Conns, k \in Slots :
        /\ \A n \in 0..MaxBurst :
            (newPage(c, n, "", MaxRacing) /\ browsers = <<>>) =>
                /\ \E j \in Slots : h[c][j].pc = "idle" /\ h'[c][j].pc = "np_ctx"
                /\ listBrowsers' = <<>>
        /\ (h[c][k].pc = "np_ctx" /\ h'[c][k].pc = "np_page" /\ browsers = <<>>) =>
                /\ listBrowsers' = OnlyDefault(0)
                /\ h'[c][k].bd = MapGet(browsers', DEFAULT_BROWSER_ID)
        /\ (/\ Succeeds(c, k, "np_goto")
            /\ listBrowsers = OnlyDefault(0)
            /\ h[c][k].bd = MapGet(browsers, DEFAULT_BROWSER_ID)) =>
                /\ listBrowsers' = OnlyDefault(1)
                /\ sent'.env.browserId = DEFAULT_BROWSER_ID]_vars

\* The first context and the first page the engine has created are the
\* default session and its page: newPage has just answered with the page id
\* and listBrowsers shows the default session alone with one page.
C20_DefaultWithOnePage ==
    /\ sent.conn # 0
    /\ sent.written
    /\ sent.env.success
    /\ sent.env.pageId # ""
    /\ sent.env.browserId = DEFAULT_BROWSER_ID
    /\ nctx = 1
    /\ npage = 1
    /\ listBrowsers = OnlyDefault(1)

\* A handler of connection c is suspended on an engine call made for a
\* command other than stop.
Waiting(c) == \E k \in Slots : h[c][k].pc \notin ShutdownPcs \cup {"idle"}

\* C21: while a handler of one connection is suspended on an engine call,
\* however long, a message that arrives on another connection is dispatched,
\* and a connection whose calls return is answered (unless the process ends
\* first); the connection that has sent one message and waits for its call
\* has been written nothing.
C21_HungCallBlocksOnlyItsConnection ==
    /\ [](\A c, b \in Conns :
            (/\ b # c
             /\ Waiting(c)
             /\ Running
             /\ InFlight < MaxRacing
             /\ socket[b].dispatched < MaxHandlers
             /\ \A a \in 1..(b - 1) : Occupied(a))
                => ENABLED ping(b, 1, MaxRacing))
    /\ [](\A c \in Conns :
            (Waiting(c) /\ socket[c].dispatched = 1) =>
                (socket[c].written = 0 /\ ~socket[c].ended))
    /\ \A c \in Conns \ {1} :
            Pending(c) ~> (Answered(c) \/ proc \in {"exited", "crashed"})

\* newPage has answered on a connection, after its three engine calls, while
\* the handler of another connection still waits for the first call it made,
\* which it made before the default session was registered.
C21_AnsweredWhileHung ==
    \E c, b \in Conns :
        /\ b # c
        /\ \E k \in Slots : h[c][k].pc = "np_ctx"
        /\ sent.conn = b
        /\ sent.written
        /\ sent.env.pageId # ""
        /\ MapHas(browsers, DEFAULT_BROWSER_ID)

\* The lines of the text ariaSnapshot() returned and those of the result.
InputLines == Split(snap.snapshot)
ResultLines == Split(snap.result)

\* The non-blank lines of the input before line i.
NonBlankBefore(i) == {j \in 1..(i - 1) : ~IsBlank(InputLines[j])}

\* Line i of the input with the reference it is due: @e and the number of
\* non-blank lines before it, a space, and the line.
Annotated(i) ==
    <<"@", "e">> \o Decimal(Cardinality(NonBlankBefore(i))) \o <<" ">> \o InputLines[i]

\* C22: the result of a snapshot request without maxDepth and compact has
\* the lines of the input, in their order: a blank line as it is, the k-th
\* non-blank line, counted from 0, behind '@e<k> '; this result, a function
\* of the input text alone, is what the request is answered with.
C22_ReferencesInInputOrder ==
    /\ (snap.pc = "done" /\ snap.maxDepth = <<>> /\ ~snap.compact) =>
            /\ Len(ResultLines) = Len(InputLines)
            /\ \A i \in 1..Len(InputLines) :
                    ResultLines[i] = IF IsBlank(InputLines[i]) THEN InputLines[i]
                                     ELSE Annotated(i)
    /\ (snap.pc = "done" /\ sent # Nothing) => sent.env = Success(snap.result)

\* The request has been answered for a text with a blank line between two
\* nodes: the nodes are @e0 and @e1 and the blank line is as it was.
C22_BlankLineBetweenNodes ==
    /\ snap.pc = "done"
    /\ snap.maxDepth = <<>>
    /\ ~snap.compact
    /\ snap.snapshot = <<"x", "\n", " ", "\n", " ", "x">>
    /\ sent.written
    /\ sent.env.msg = <<"@", "e", "0", " ", "x", "\n", " ", "\n",
                         "@", "e", "1", " ", " ", "x">>

\* The number of spaces a line starts with.
LeadingSpaces(line) ==
    CHOOSE n \in 0..Len(line) :
        /\ \A i \in 1..n : line[i] = " "
        /\ n < Len(line) => line[n + 1] # " "

\* Line i of the input, annotated, is one of the lines of the result.
InResult(i) == \E j \in 1..Len(ResultLines) : ResultLines[j] = Annotated(i)

\* C23: for every maximum depth D >= 0 of a snapshot request, an annotated
\* line is in the result if and only if its depth, the number of spaces after
\* its reference divided by 2, is less than D.
C23_KeptIffShallower ==
    (snap.pc = "done" /\ snap.maxDepth # <<>> /\ ~snap.compact) =>
        \A i \in 1..Len(InputLines) :
            ~IsBlank(InputLines[i]) =>
                (InResult(i) <=> LeadingSpaces(InputLines[i]) < 2 * snap.maxDepth[1])

\* The input is a tree with nodes at depths 0, 1 and 2 and nothing else: every
\* line is a node behind 0, 2 or 4 spaces, and each of the depths occurs.
TreeOfDepthTwo ==
    /\ \A i \in 1..Len(InputLines) :
            ~IsBlank(InputLines[i]) /\ LeadingSpaces(InputLines[i]) \in {0, 2, 4}
    /\ \A n \in {0, 2, 4} :
            \E i \in 1..Len(InputLines) : LeadingSpaces(InputLines[i]) = n

\* The annotated lines of the input behind at most n spaces, in input order.
AnnotatedWithin(n) ==
    LET within == SelectSeq([i \in 1..Len(InputLines) |-> i],
                            LAMBDA i : LeadingSpaces(InputLines[i]) <= n)
    IN [j \in 1..Len(within) |-> Annotated(within[j])]

\* C24 as stated: a snapshot request with maximum depth 1 on a tree with nodes
\* at depths 0, 1 and 2 returns exactly the depth-0 and the depth-1 lines,
\* each with its reference; the depth-2 lines are removed.
C24_DepthOneKeepsTwoLevels ==
    (snap.pc = "done" /\ snap.maxDepth = <<1>> /\ ~snap.compact /\ TreeOfDepthTwo) =>
        ResultLines = AnnotatedWithin(2)

\* C24 as amended: a snapshot request with maximum depth 1 on a tree with
\* nodes at depths 0, 1 and 2 returns exactly the depth-0 lines, each with
\* its reference; the depth-1 and the depth-2 lines are removed.
C24_DepthOneKeepsTopLevel ==
    (snap.pc = "done" /\ snap.maxDepth = <<1>> /\ ~snap.compact /\ TreeOfDepthTwo) =>
        ResultLines = AnnotatedWithin(0)

\* The request with maximum depth 1 has been answered for the tree of a node,
\* its child and its grandchild.
C24_ChainOfThree ==
    /\ snap.pc = "done"
    /\ snap.maxDepth = <<1>>
    /\ ~snap.compact
    /\ snap.snapshot = <<"x", "\n", " ", " ", "x", "\n", " ", " ", " ", " ", "x">>
    /\ sent.written
    /\ sent.env.msg = <<"@", "e", "0", " ", "x">>

\* The lines of a text; the empty text has none.
LinesOf(text) == IF text = <<>> THEN <<>> ELSE Split(text)

\* The lines of the unlimited snapshot of the input: every line of the input,
\* the non-blank ones with their references.
UnlimitedLines ==
    [i \in 1..Len(InputLines) |->
        IF IsBlank(InputLines[i]) THEN InputLines[i] ELSE Annotated(i)]

\* Sequence a is b with some of its elements left out.
RECURSIVE IsSubsequence(_, _)
IsSubsequence(a, b) ==
    IF a = <<>> THEN TRUE
    ELSE IF b = <<>> THEN FALSE
    ELSE IF Head(a) = Head(b) THEN IsSubsequence(Tail(a), Tail(b))
    ELSE IsSubsequence(a, Tail(b))

\* C25: for every input and every maximum depth the lines of the
\* depth-limited snapshot are lines of the unlimited snapshot of the same
\* input, in the same order, each as it is there, its reference included.
C25_LimitedIsSubsequence ==
    (snap.pc = "done" /\ snap.maxDepth # <<>> /\ ~snap.compact) =>
        IsSubsequence(LinesOf(snap.result), UnlimitedLines)

\* The request with maximum depth 1 has been answered for two top-level nodes
\* with a child of the first between them: the second keeps @e2.
C25_SecondKeepsItsReference ==
    /\ snap.pc = "done"
    /\ snap.maxDepth = <<1>>
    /\ ~snap.compact
    /\ snap.snapshot = <<"x", "\n", " ", " ", "x", "\n", "x">>
    /\ sent.written
    /\ sent.env.msg = <<"@", "e", "0", " ", "x", "\n", "@", "e", "2", " ", "x">>

\* The text with ' | ' in the place of every newline.
Piped(text) ==
    Flatten([i \in 1..Len(text) |->
        IF text[i] = "\n" THEN <<" ", "|", " ">> ELSE <<text[i]>>])

\* The text with a single space in the place of every run of whitespace.
Collapsed(text) ==
    LET first == SelectSeq([i \in 1..Len(text) |-> i],
                    LAMBDA i : text[i] \notin Whitespace
                                \/ i = 1 \/ text[i - 1] \notin Whitespace)
    IN [j \in 1..Len(first) |->
            IF text[first[j]] \in Whitespace THEN " " ELSE text[first[j]]]

\* The text without the whitespace at its start and at its end.
Stripped(text) ==
    LET solid == {i \in 1..Len(text) : text[i] \notin Whitespace}
    IN IF solid = {} THEN <<>>
       ELSE SubSeq(text, CHOOSE i \in solid : \A j \in solid : i <= j,
                         CHOOSE i \in solid : \A j \in solid : j <= i)

\* What the same request without compact is answered with: the annotated
\* text, depth-limited if the request has a maximum depth.
NotCompacted == snapshotResult(snap.snapshot, snap.maxDepth, FALSE)

\* C26 as stated: the result of a request with compact has no newline and is
\* the annotated text, depth-limited first if a maximum depth is requested,
\* with every newline replaced by ' | ' and every run of whitespace replaced
\* by a single space.
C26_CompactIsPipedAndCollapsed ==
    (snap.pc = "done" /\ snap.compact) =>
        /\ \A i \in 1..Len(snap.result) : snap.result[i] # "\n"
        /\ snap.result = Collapsed(Piped(NotCompacted))

\* C26 as amended: the result of a request with compact has no newline and
\* is the annotated text, depth-limited first if a maximum depth is
\* requested, with every newline replaced by ' | ', every run of whitespace
\* replaced by a single space, and the whitespace at its start and at its end
\* removed.
C26_CompactIsPipedCollapsedAndTrimmed ==
    (snap.pc = "done" /\ snap.compact) =>
        /\ \A i \in 1..Len(snap.result) : snap.result[i] # "\n"
        /\ snap.result = Stripped(Collapsed(Piped(NotCompacted)))

\* The request with compact and maximum depth 1 has been answered for a node,
\* its child and a line of one space: the child is dropped, the newline is
\* ' | ' and the space at the end is gone.
C26_CompactedAfterLimit ==
    /\ snap.pc = "done"
    /\ snap.compact
    /\ snap.maxDepth = <<1>>
    /\ snap.snapshot = <<"x", "\n", " ", " ", "x", "\n", " ">>
    /\ sent.written
    /\ sent.env.msg = <<"@", "e", "0", " ", "x", " ", "|">>

\* The text the first matching rule gives for a value: 'undefined' for
\* undefined, 'null' for null, for an object its JSON text or, when the
\* serialisation throws, String(value), and String(value) for any other.
FirstRule(value) ==
    IF value.typeof = "undefined" THEN "undefined"
    ELSE IF value.isNull THEN "null"
    ELSE IF value.typeof = "object"
    THEN IF value.json = Thrown THEN value.string ELSE value.json
    ELSE value.string

\* C27: whatever value the code of an exec evaluates to, the handler answers
\* with a success envelope whose result is a text, the one the first matching
\* rule gives for the value.
C27_SerialisedByFirstRule ==
    [][\A c \in Conns, k \in Slots, value \in ExecValues :
        execReturned(c, k, value) =>
            /\ sent'.conn = c
            /\ sent'.env.success
            /\ sent'.env.msg = FirstRule(value)
            /\ sent'.env.msg \notin {Undefined, Thrown}]_vars

\* The step is an exec whose code fails: it does not compile, or it throws or
\* rejects once called.
ExecFails(c) ==
    \/ \E n \in 0..MaxBurst, pageId \in PageRequestIds :
            /\ exec(c, n, pageId, MaxRacing)
            /\ pageId # ""
            /\ findPage(pageId) # 0
            /\ \A k \in Slots : h'[c][k] = h[c][k]
    \/ \E k \in Slots : execThrew(c, k)

\* C28: an exec whose code does not compile, throws or rejects is answered
\* with the failure envelope that carries the error's message; the step
\* leaves the registry as it is and the process listening, no handler is left
\* suspended for the request, and the sockets and the handlers of the other
\* connections are as they were.
C28_ExecFailureIsAnswered ==
    [][\A c \in Conns :
        ExecFails(c) =>
            /\ sent'.conn = c
            /\ sent'.env \in {Failure(syntaxErrorMessage), Failure(getErrorMessage)}
            /\ RegistryView' = RegistryView
            /\ proc' = "listening"
            /\ InFlight' <= InFlight
            /\ \A b \in Conns \ {c} : socket'[b] = socket[b] /\ h'[b] = h[b]]_vars

\* exec has just answered that its code does not compile, while the registry
\* holds two sessions with a page each, all of them open.
C28_SyntaxErrorAnswered ==
    /\ sent.conn # 0
    /\ sent.written
    /\ sent.env = Failure(syntaxErrorMessage)
    /\ proc = "listening"
    /\ Len(browsers) = 2
    /\ \A i \in Sessions : Len(PagesOf(i)) = 1 /\ ctxOpen[browsers[i].v]
    /\ \A p \in PageHandles : pageOpen[p]

\* C29: when the close of a page throws during closeBrowser the handler goes
\* on as when it returns, to the close of the next page of the session or,
\* after the last one, to the close of the context, without answering and
\* with the session still registered; and from the close of the context it
\* ends only with the session removed or with the failure of that close.
C29_PageFailureDoesNotAbortClose ==
    [][\A c \in Conns, k \in Slots :
        /\ (h[c][k].pc = "cb_page" /\ OwnStep(h[c][k], h'[c][k])) =>
                /\ h'[c][k].pc \in {"cb_page", "cb_ctx"}
                /\ h'[c][k].pc = "cb_page" => h'[c][k].it = h[c][k].it + 1
                /\ h'[c][k].pc = "cb_ctx" => h[c][k].it >= Len(pages[h[c][k].bd])
                /\ sent' = Nothing
                /\ browsers' = browsers
        /\ (h[c][k].pc = "cb_ctx" /\ h'[c][k].pc = "idle" /\ sent'.env.success) =>
                ~MapHas(browsers', h[c][k].browserId)]_vars

\* The session with id s and page map d is seen by one of the lookups:
\* browsers.get(s), an entry of listBrowsers or of listPages, or findPage of
\* one of its page ids.
Observable(s, d) ==
    \/ MapHas(browsers, s)
    \/ \E i \in 1..Len(listBrowsers) : listBrowsers[i].browserId = s
    \/ \E i \in 1..Len(listPages) : listPages[i].browserId = s
    \/ \E pid \in MapKeys(pages[d]) : findPage(pid) = d

\* C30: while a closeBrowser handler is suspended in an engine close call for
\* session s (the close of a page or of the context), a handler that runs for
\* a message of another connection does not see s or its pages through
\* browsers.get, listBrowsers, listPages or findPage.
C30_ClosingSessionIsNotObserved ==
    [][\A b \in Conns, j \in Slots :
        h[b][j].pc \in {"cb_page", "cb_ctx"} =>
            \A c \in Conns \ {b} :
                socket'[c].dispatched > socket[c].dispatched =>
                    ~Observable(h[b][j].browserId, h[b][j].bd)]_vars

\* The positions of the handlers that hold the page findPage returned.
PagePcs == {"cp_close", "ex_run", "pg_op"}

\* C31: the page findPage returns to a handler, which the handler then calls,
\* is one whose engine handle has not been closed, whatever closePage and
\* closeBrowser handlers ran before, a closeBrowser that failed part-way
\* included.
C31_FoundPageIsOpen ==
    [][\A c \in Conns, k \in Slots :
        (h[c][k].pc = "idle" /\ h'[c][k].pc \in PagePcs) =>
            pageOpen[h'[c][k].page]]_vars

\* The page handler k of connection c holds is no longer the one registered
\* under its page id: the id is not found, or is found with another page.
Unregistered(c, k) ==
    LET pid == h[c][k].pageId
        d == findPage(pid)
    IN d = 0 \/ MapGet(pages[d], pid) # h[c][k].page

\* C32: a page-scoped handler whose page was taken out of the registry while
\* it was suspended does not go on with the page and the session it holds
\* when its engine call returns: it does not answer success with what it
\* reads of the page (found.page.url() of goto, back, forward and reload),
\* and closePage does not call pages.delete on the session it holds.
C32_RemovedPageIsNotUsed ==
    [][\A c \in Conns, k \in Slots :
        (h[c][k].pc \in {"cp_close", "pg_op"} /\ Unregistered(c, k)) =>
            ~(Succeeds(c, k, "cp_close") \/ Succeeds(c, k, "pg_op"))]_vars

\* Handler k of connection c ends in this step with a failure envelope.
Fails(c, k) ==
    /\ h[c][k].pc # "idle"
    /\ h'[c][k].pc = "idle"
    /\ sent'.conn = c
    /\ ~sent'.env.success

\* C33: a handler makes one engine call at most: when the call it awaits
\* returns or throws the handler ends, without a second await.  And when a
\* handler ends with the failure envelope the engine and the registry agree
\* on what it worked on: the page it holds and the pages of the session it
\* holds are open exactly when they are registered, and the context of that
\* session is open exactly when the session is registered.
C33_OneEngineCallNothingToRollBack ==
    [][\A c \in Conns, k \in Slots :
        /\ (h[c][k].pc # "idle" /\ OwnStep(h[c][k], h'[c][k])) => h'[c][k].pc = "idle"
        /\ Fails(c, k) =>
            LET x == h[c][k]
                registered == UNION {{pages'[browsers'[i].v][j].v :
                                        j \in 1..Len(pages'[browsers'[i].v])} :
                                     i \in 1..Len(browsers')}
            IN /\ \A p \in PageHandles :
                    (p = x.page \/ (x.bd # 0 /\ pageCtx'[p] = x.bd)) =>
                        (pageOpen'[p] <=> p \in registered)
               /\ x.bd # 0 =>
                    (ctxOpen'[x.bd] <=> \E i \in 1..Len(browsers') : browsers'[i].v = x.bd)]_vars

\* C34: when newPage answers success with page id p and browser id b, the
\* registry has a session under b at that moment and p is a key of its page
\* map.
C34_AnsweredPageIsRegistered ==
    [][\A c \in Conns, k \in Slots :
        Succeeds(c, k, "np_goto") =>
            /\ sent'.env.pageId = h[c][k].pageId
            /\ sent'.env.browserId = h[c][k].browserId
            /\ MapHas(browsers', sent'.env.browserId)
            /\ MapHas(pages'[MapGet(browsers', sent'.env.browserId)], sent'.env.pageId)]_vars

\* The shutdown() calls in progress: those awaited by stop handlers and those
\* started by signal listeners.
ShutdownsInProgress ==
    Cardinality({ck \in Conns \X Slots : h[ck[1]][ck[2]].pc \in ShutdownPcs})
        + Cardinality({s \in Signals : sig[s].pc \in ShutdownPcs})

\* C35: the teardown sequence runs once at most: while one shutdown() is in
\* progress a further stop command or termination signal starts no second
\* one.
C35_TeardownRunsOnce == ShutdownsInProgress <= 1

\* A shutdown() is past browsers.clear() and awaits browser.close().
RegistryCleared ==
    \/ \E c \in Conns, k \in Slots : h[c][k].pc = "sd_browser"
    \/ \E s \in Signals : sig[s].pc = "sd_browser"

\* C36: once a shutdown() has cleared the registry no step adds a session,
\* and with it a page, to the registry: it is empty after every step taken
\* while that shutdown() awaits browser.close().
C36_RegistryStaysEmpty ==
    [][RegistryCleared => (browsers' = <<>> /\ listPages' = <<>>)]_vars

\* The engine close calls that are pending: page.close() of page p by
\* closePage or by closeBrowser, and context.close() of context d by
\* closeBrowser or by a shutdown().
ClosingPage(x, p) == x.pc \in {"cp_close", "cb_page"} /\ x.page = p
ClosingContext(x, d) == x.pc \in {"cb_ctx", "sd_ctx"} /\ x.bd = d
PendingCalls(Closing(_, _), t) ==
    Cardinality({ck \in Conns \X Slots : Closing(h[ck[1]][ck[2]], t)})
        + Cardinality({s \in Signals : Closing(sig[s], t)})

\* C37: close is called once at most for any page and for any context: no
\* two close calls are pending for the same one, and none is pending for a
\* page or a context that an earlier close call has closed.
C37_ClosedOnce ==
    proc = "listening" =>
        /\ \A p \in PageHandles :
            /\ PendingCalls(ClosingPage, p) <= 1
            /\ (PendingCalls(ClosingPage, p) = 1 /\ ctxOpen[pageCtx[p]]) => pageOpen[p]
        /\ \A d \in Ctxs :
            /\ PendingCalls(ClosingContext, d) <= 1
            /\ PendingCalls(ClosingContext, d) = 1 => ctxOpen[d]

\* C38: the step in which closePage for page id p succeeds leaves the
\* registry with the same sessions, the session whose page map the handler
\* deletes from included, also when that map becomes empty; that session's
\* page map is as before without the entry of p, and the page map of every
\* other session is as before.
C38_ClosePageRemovesOnlyItsPage ==
    [][\A c \in Conns, k \in Slots :
        Succeeds(c, k, "cp_close") =>
            /\ browsers' = browsers
            /\ \A i \in Sessions :
                PagesOf(i)' = IF browsers[i].v = h[c][k].bd
                              THEN MapDelete(PagesOf(i), h[c][k].pageId)
                              ELSE PagesOf(i)]_vars

\* closePage has just closed the only page of the first of two sessions: the
\* session is registered with an empty page map and the other session has
\* its page.
C38_LastPageClosed ==
    /\ sent.written
    /\ sent.env = Success("Page closed")
    /\ Len(browsers) = 2
    /\ PagesOf(1) = <<>>
    /\ Len(PagesOf(2)) = 1

\* The positions of the newPage handler: awaiting browser.newContext(),
\* context.newPage(), page.goto('about:blank').
NewPagePcs == {"np_ctx", "np_page", "np_goto"}

\* C39: a page is registered, and a page id becomes one that findPage and
\* listPages know, only in the step in which the page.goto('about:blank') of
\* a newPage handler returns, and then it is the page that handler created,
\* under the id it answers with; a page just created by context.newPage() is
\* in no page map, and when context.newPage() or page.goto throws the step
\* registers nothing.
C39_RegisteredAfterNavigation ==
    [][/\ \A p \in RegisteredPages' \ RegisteredPages :
            \E c \in Conns, k \in Slots :
                Succeeds(c, k, "np_goto") /\ h[c][k].page = p /\ pageOpen[p]
       /\ \A pid \in IdPool :
            (findPage(pid) = 0 /\ findPage(pid)' # 0) =>
                \E c \in Conns, k \in Slots :
                    /\ Succeeds(c, k, "np_goto")
                    /\ h[c][k].pageId = pid
                    /\ sent'.env.pageId = pid
       /\ \A c \in Conns, k \in Slots :
            /\ (h[c][k].pc = "np_page" /\ h'[c][k].pc = "np_goto") =>
                    h'[c][k].page \notin RegisteredPages'
            /\ (h[c][k].pc \in NewPagePcs /\ Fails(c, k)) =>
                    /\ RegisteredPages' = RegisteredPages
                    /\ listPages' = listPages]_vars

\* newPage has created its page in a registered session and awaits the
\* navigation: the page is open and in no page map.
C39_CreatedNotYetRegistered ==
    \E c \in Conns, k \in Slots :
        /\ h[c][k].pc = "np_goto"
        /\ MapHas(browsers, h[c][k].browserId)
        /\ pageOpen[h[c][k].page]
        /\ h[c][k].page \notin RegisteredPages

\* A message has been dispatched, or a signal listener has run.
Handled ==
    \/ \E c \in Conns : socket[c] # FreshSocket
    \/ \E c \in Conns, k \in Slots : h[c][k].pc # "idle"
    \/ \E s \in Signals : sig[s].pc # "idle"
    \/ sent # Nothing

\* C40: while the engine is being launched no file is at the socket path and
\* nothing listens; the server starts to listen in the step in which the
\* launch returns the engine handle, with an empty registry; and no message
\* is dispatched before that: up to that step nothing has been handled, and
\* every message is dispatched with the engine handle set.
C40_StartupOrder ==
    [][/\ proc \in {"start", "launching"} =>
            /\ browser = "null"
            /\ browsers = <<>> /\ listPages = <<>>
            /\ ~Handled
       /\ proc = "launching" => ~socketFile
       /\ (proc # "listening" /\ proc' = "listening") =>
            /\ proc = "launching"
            /\ browser' = "open"
            /\ socketFile'
            /\ browsers' = <<>> /\ listPages' = <<>>
            /\ ~Handled'
       /\ (\E c \in Conns : socket'[c].dispatched > socket[c].dispatched) =>
            proc = "listening" /\ browser = "open"]_vars

\* The first request of a daemon that has started is answered: the engine is
\* launched, the server listens at the socket path, the registry is empty.
C40_FirstRequestServed ==
    /\ proc = "listening"
    /\ browser = "open"
    /\ socketFile
    /\ browsers = <<>>
    /\ sent.written
    /\ sent.env = Success("pong")

====
